---- MODULE Spec2Model ----
(***************************************************************************)
(* A model of the Ginger interpreter core (src/ginger): the lowering pass  *)
(* (lower.py), the symbol builder (symbols_builder.py), the tree walking   *)
(* evaluator (eval.py), the type checker (typecheck.py) and the drivers    *)
(* that chain them (pipeline.py, main.py), and the parser of expressions   *)
(* and top-level statements (parser.py) and the loader of the catalog     *)
(* JSON (core/catalog_loader.py).                                          *)
(*                                                                         *)
(* AST nodes are records carrying the dataclass name in field k and the    *)
(* dataclass fields of ast.py under their own names.  Lists are sequences. *)
(***************************************************************************)
EXTENDS Integers, Sequences, FiniteSets, TLC

VARIABLES
    lw_prog,      \* lower.py: the Program handed to lower_program
    lw_out,       \* lower.py: lower_program(lw_prog)
    lw_out2,      \* lower.py: lower_program(lw_out)
    lw_pc,        \* "source" -> "parsed" -> "lowered" -> "relowered", or "raised"
    ps_toks,      \* parser.py: self.toks, the tokens handed to Parser
    ps_err,       \* the exception parse raised, or "none"
    cl_data,      \* core/catalog_loader.py: data, the catalog JSON as read
    cl_out,       \* load_core_catalog_json: out, the declarations loaded
    cl_pc,        \* "start" -> "returned" | "raised"
    cl_err,       \* the exception load_core_catalog_json raised, or "none"
    bs_items,     \* symbols_builder.py: prog.items handed to build_symbols
    bs_i,         \* build_symbols: position of the loop over prog.items
    bs_status,    \* "building" | "returned" | the exception raised
    guarantees,   \* build_symbols locals, the fields of Symbols
    typegroups,
    type_guarantees,
    sigs,
    sig_failures,
    sig_attrs,
    funcs,
    impls,
    types,
    ev_prog,      \* eval.py: prog.items handed to eval_program
    ev_i,         \* eval_program: i, counted from 1
    env,          \* eval_program: env, name -> Cell
    out,          \* the host output sink: the lines printed so far
    ev_status,    \* "running" | "returned" | the exception leaving eval_program
    ev_fid,       \* the fid of the RaisedFailure leaving eval_program, or "none"
    host,         \* the builtins that fail in this run, with the failure raised
    last,         \* what the last step of eval_program did
    run_driver,   \* the entry point of the run: "pipeline.run" | "main.main"
    run_src,      \* the source text, by what parse makes of it
    run_prog,     \* pipeline.py, main.py: prog
    run_pc,       \* the stage the run is at, "done" or "raised"
    run_err,      \* the exception that ended the run and the stage it left
    tc_i,         \* typecheck_program: position of the loop over prog.items
    tc_env,       \* typecheck_program: env, the (name, type) pairs in order
    diags         \* pipeline.py: diags.items

cvars == <<cl_data, cl_out, cl_pc, cl_err>>

lvars == <<lw_prog, lw_out, lw_out2, lw_pc, ps_toks, ps_err, cvars>>

bvars == <<bs_items, bs_i, bs_status, guarantees, typegroups, type_guarantees,
           sigs, sig_failures, sig_attrs, funcs, impls, types>>

evars == <<ev_prog, ev_i, env, out, ev_status, ev_fid, host, last>>

rvars == <<run_driver, run_src, run_prog, run_pc, run_err, tc_i, tc_env, diags>>

vars == <<lvars, bvars, evars, rvars>>

(***************************************************************************)
(* ast.py: constructors                                                    *)
(***************************************************************************)
IntLit(v) == [k |-> "IntLit", value |-> v]

FloatLit(v) == [k |-> "FloatLit", value |-> v]

IdentExpr(n) == [k |-> "IdentExpr", name |-> n]

BinaryExpr(o, l, r) == [k |-> "BinaryExpr", op |-> o, left |-> l, right |-> r]

PosArg(e) == [k |-> "PosArg", expr |-> e]

NamedArg(n, e) == [k |-> "NamedArg", name |-> n, expr |-> e]

CallExpr(c, a, s) == [k |-> "CallExpr", callee |-> c, args |-> a, arg_style |-> s]

ExprStmt(e) == [k |-> "ExprStmt", expr |-> e]

TryStmt(e) == [k |-> "TryStmt", expr |-> e]

CatchStmt(f, e) == [k |-> "CatchStmt", failure_name |-> f, expr |-> e]

ReturnStmt(e) == [k |-> "ReturnStmt", expr |-> e]

VarDecl(m, t, n, e) == [k |-> "VarDecl", mutable |-> m, typ |-> t, name |-> n, expr |-> e]

AssignStmt(n, e) == [k |-> "AssignStmt", name |-> n, expr |-> e]

BlockStmt(s) == [k |-> "BlockStmt", stmts |-> s]

FuncDecl(n, p, b, a) == [k |-> "FuncDecl", name |-> n, params |-> p, body |-> b, attrs |-> a]

RegisterDecl(t, g) == [k |-> "RegisterDecl", typ |-> t, guarantee |-> g]

TypeRef(n) == [name |-> n]

FuncSig(n, p, r) == [k |-> "FuncSig", name |-> n, params |-> p, ret |-> r]

GuaranteeDecl(n, m) == [k |-> "GuaranteeDecl", name |-> n, methods |-> m]

TypeGroupDecl(n, m) == [k |-> "TypeGroupDecl", name |-> n, members |-> m]

ImplMethod(n, b) == [name |-> n, builtin |-> b]

ImplDecl(t, g, m) == [k |-> "ImplDecl", typ |-> t, guarantee |-> g, methods |-> m]

SigDecl(n, p, r, q, f, a) ==
    [k |-> "SigDecl", name |-> n, params |-> p, ret |-> r, requires |-> q,
     failure |-> f, attrs |-> a]

RequireGuarantees(t, g) == [k |-> "RequireGuarantees", type_var |-> t, guarantee_name |-> g]

Param(n, t) == [name |-> n, typ |-> t]

(***************************************************************************)
(* lower.py                                                                *)
(***************************************************************************)
OP_TO_CALEE == [o \in {"+", "-", "*", "/"} |->
                  CASE o = "+" -> "add"
                    [] o = "-" -> "sub"
                    [] o = "*" -> "mul"
                    [] o = "/" -> "div"]

RECURSIVE lower_expr(_)

\* lower_expr with the CallExpr branch (lower.py:94-102) returning e as it is
lower_expr_keeps_args(e) ==
    IF e.k = "BinaryExpr"
    THEN CallExpr(OP_TO_CALEE[e.op],
                  <<PosArg(lower_expr(e.left)), PosArg(lower_expr(e.right))>>,
                  "pos")
    ELSE e

\* lower_expr with the operands of a BinaryExpr (lower.py:79-80) not lowered
lower_expr_shallow(e) ==
    IF e.k = "BinaryExpr"
    THEN CallExpr(OP_TO_CALEE[e.op], <<PosArg(e.left), PosArg(e.right)>>, "pos")
    ELSE IF e.k = "CallExpr"
    THEN CallExpr(e.callee,
                  [j \in 1..Len(e.args) |->
                      [e.args[j] EXCEPT !.expr = lower_expr(e.args[j].expr)]],
                  e.arg_style)
    ELSE e

lower_expr(e) ==
    IF e.k = "BinaryExpr"
    THEN CallExpr(OP_TO_CALEE[e.op],
                  <<PosArg(lower_expr(e.left)), PosArg(lower_expr(e.right))>>,
                  "pos")
    ELSE IF e.k = "CallExpr"
    THEN CallExpr(e.callee,
                  [j \in 1..Len(e.args) |->
                      [e.args[j] EXCEPT !.expr = lower_expr(e.args[j].expr)]],
                  e.arg_style)
    ELSE e

lower_block(b) ==
    BlockStmt([j \in 1..Len(b.stmts) |->
        IF b.stmts[j].k \in {"ReturnStmt", "ExprStmt", "VarDecl", "AssignStmt",
                             "TryStmt", "CatchStmt"}
        THEN [b.stmts[j] EXCEPT !.expr = lower_expr(b.stmts[j].expr)]
        ELSE b.stmts[j]])

lower_toplevel(it) ==
    IF it.k \in {"ExprStmt", "TryStmt", "CatchStmt", "VarDecl", "AssignStmt"}
    THEN [it EXCEPT !.expr = lower_expr(it.expr)]
    ELSE IF it.k = "FuncDecl"
    THEN [it EXCEPT !.body = lower_block(it.body)]
    ELSE it

lower_program(p) == [j \in 1..Len(p) |-> lower_toplevel(p[j])]

(***************************************************************************)
(* attrs.py, builtin.py, core/failure_spec.py: the fixed tables            *)
(***************************************************************************)
\* attrs.py ATTRS: attribute name -> require_return ("" stands for None)
ATTRS == [a \in {"io", "handled"} |-> IF a = "handled" THEN "Unit" ELSE ""]

\* builtin.py BUILTINS: the registered builtin ids
BUILTINS ==
    {"core.int.add", "core.float.add", "core.int.sub", "core.float.sub",
     "core.int.mul", "core.float.mul", "core.float.div", "core.int.neg",
     "core.float.neg", "core.int.toFloat", "core.int.print", "core.float.print",
     "core.string.print", "core.ordering.print", "core.int.cmp", "core.float.cmp"}

\* core/failure_spec.py FailureId: member name -> value
FailureIdMembers ==
    [m \in {"PrintErr", "IOErr", "TimeErr", "RandomErr", "UnexpecterErr"} |->
        IF m = "UnexpecterErr" THEN "UnexpectedErr" ELSE m]

\* core/failure_spec.py FailureId: the values of the enumeration
FailureId == {FailureIdMembers[m] : m \in DOMAIN FailureIdMembers}

(***************************************************************************)
(* symbols_builder.py                                                      *)
(***************************************************************************)
\* d[key] = v on a dict
Put(d, key, v) == [x \in (DOMAIN d) \cup {key} |-> IF x = key THEN v ELSE d[x]]

\* d.get(key, set())
GetSet(d, key) == IF key \in DOMAIN d THEN d[key] ELSE {}

EmptyDict == <<>>

\* symbols_builder.py:85  len(name) == 1 and name.isupper()
IsUpperLetter(n) == n \in {"T", "U", "V"}

SeqToSet(q) == {q[j] : j \in 1..Len(q)}

CatalogIdle ==
    /\ cl_data = <<>>
    /\ cl_out = <<>>
    /\ cl_pc = "idle"
    /\ cl_err = "none"

BuildIdle ==
    /\ bs_items = <<>>
    /\ bs_i = 0
    /\ bs_status = "idle"
    /\ guarantees = EmptyDict
    /\ typegroups = EmptyDict
    /\ type_guarantees = EmptyDict
    /\ sigs = EmptyDict
    /\ sig_failures = EmptyDict
    /\ sig_attrs = EmptyDict
    /\ funcs = EmptyDict
    /\ impls = EmptyDict
    /\ types = {}

\* what last holds before eval_program has taken a step
NoStep ==
    [kind |-> "none", at |-> 0, env0 |-> EmptyDict, out0 |-> <<>>,
     try |-> [st |-> "none", fid |-> "none"], ran |-> <<>>,
     h |-> [st |-> "none", fid |-> "none"]]

EvalIdle ==
    /\ ev_prog = <<>>
    /\ ev_i = 0
    /\ env = EmptyDict
    /\ out = <<>>
    /\ ev_status = "idle"
    /\ ev_fid = "none"
    /\ host = EmptyDict
    /\ last = NoStep

NoErr == [at |-> "none", exc |-> "none"]

NoSource == [parses |-> FALSE, prog |-> <<>>]

RunIdle ==
    /\ run_driver = "none"
    /\ run_src = NoSource
    /\ run_prog = <<>>
    /\ run_pc = "idle"
    /\ run_err = NoErr
    /\ tc_i = 0
    /\ tc_env = <<>>
    /\ diags = <<>>

\* the item the loop of build_symbols is at
BsItem == bs_items[bs_i]

BsAt(kind) ==
    /\ bs_status = "building"
    /\ bs_i \in 1..Len(bs_items)
    /\ BsItem.k = kind

\* the loop moves on to the next item
BsAdvance == bs_i' = bs_i + 1 /\ bs_status' = "building"

\* the item raises: build_symbols ends with the exception
BsRaise(exc) == bs_i' = bs_i /\ bs_status' = exc

\* symbols_builder.py:56-60
BuildGuarantee ==
    /\ BsAt("GuaranteeDecl")
    /\ IF BsItem.name \in DOMAIN guarantees
       THEN BsRaise("TypecheckError") /\ UNCHANGED guarantees
       ELSE BsAdvance /\ guarantees' = Put(guarantees, BsItem.name, BsItem)
    /\ UNCHANGED <<bs_items, typegroups, type_guarantees, sigs, sig_failures,
                   sig_attrs, funcs, impls, types, lvars, evars, rvars>>

\* symbols_builder.py:62-74
BuildTypeGroup ==
    /\ BsAt("TypeGroupDecl")
    /\ IF BsItem.name \in DOMAIN typegroups
       THEN BsRaise("TypecheckError") /\ UNCHANGED <<typegroups, types>>
       ELSE LET members == {BsItem.members[j].name : j \in 1..Len(BsItem.members)}
            IN  /\ BsAdvance
                /\ typegroups' = Put(typegroups, BsItem.name, members)
                /\ types' = types \cup {BsItem.name} \cup members
    /\ UNCHANGED <<bs_items, guarantees, type_guarantees, sigs, sig_failures,
                   sig_attrs, funcs, impls, lvars, evars, rvars>>

\* symbols_builder.py:76-133.  SigDecl.params holds TypeRef (ast.py:134), so
\* p.typ at line 90 raises AttributeError for the first parameter.
BuildSig ==
    /\ BsAt("SigDecl")
    /\ LET item == BsItem
           attrs == SeqToSet(item.attrs)
           types1 == IF IsUpperLetter(item.ret.name) THEN types
                     ELSE types \cup {item.ret.name}
           fname == item.failure.name
       IN  IF item.name \in DOMAIN sigs
           THEN BsRaise("TypecheckError")
                /\ UNCHANGED <<sigs, types, sig_attrs, sig_failures>>
           ELSE /\ sigs' = Put(sigs, item.name, item)
                /\ types' = types1
                /\ IF Len(item.params) > 0
                   THEN BsRaise("AttributeError")
                        /\ UNCHANGED <<sig_attrs, sig_failures>>
                   ELSE IF \E a \in attrs : a \notin DOMAIN ATTRS
                   THEN BsRaise("TypecheckError")
                        /\ UNCHANGED <<sig_attrs, sig_failures>>
                   ELSE /\ sig_attrs' = Put(sig_attrs, item.name, attrs)
                        /\ IF \E a \in attrs :
                                ATTRS[a] # "" /\ item.ret.name # ATTRS[a]
                           THEN BsRaise("TypecheckError") /\ UNCHANGED sig_failures
                           ELSE IF fname = "Never"
                           THEN BsAdvance
                                /\ sig_failures' = Put(sig_failures, item.name, {})
                           ELSE IF fname \in FailureId
                           THEN BsAdvance
                                /\ sig_failures' = Put(sig_failures, item.name, {fname})
                           ELSE BsRaise("TypecheckError") /\ UNCHANGED sig_failures
    /\ UNCHANGED <<bs_items, guarantees, typegroups, type_guarantees, funcs,
                   impls, lvars, evars, rvars>>

\* symbols_builder.py:150-156: the comparison of a func with its sig.
\* "TypecheckError", "AttributeError" or "ok".  zip pairs the parameters by
\* position; sp is a TypeRef, which has no attribute typ; a FuncDecl
\* (ast.py:141-148) has no attribute ret.
func_matches_sig(item, sig) ==
    IF Len(item.params) # Len(sig.params) THEN "TypecheckError"
    ELSE IF Len(item.params) > 0 THEN "AttributeError"
    ELSE "AttributeError"

\* symbols_builder.py:135-156
BuildFunc ==
    /\ BsAt("FuncDecl")
    /\ IF BsItem.name \in DOMAIN funcs
       THEN BsRaise("TypecheckError") /\ UNCHANGED funcs
       ELSE /\ funcs' = Put(funcs, BsItem.name, BsItem)
            /\ IF BsItem.name \notin DOMAIN sigs
               THEN BsRaise("TypecheckError")
               ELSE LET r == func_matches_sig(BsItem, sigs[BsItem.name])
                    IN  IF r = "ok" THEN BsAdvance ELSE BsRaise(r)
    /\ UNCHANGED <<bs_items, guarantees, typegroups, type_guarantees, sigs,
                   sig_failures, sig_attrs, impls, types, lvars, evars, rvars>>

\* symbols_builder.py:202-223
BuildRegister ==
    /\ BsAt("RegisterDecl")
    /\ LET t == BsItem.typ.name
           g == BsItem.guarantee
       IN  IF g \notin DOMAIN guarantees
           THEN BsRaise("TypecheckError") /\ UNCHANGED <<type_guarantees, types>>
           ELSE IF Len(guarantees[g].methods) > 0
           THEN BsRaise("TypecheckError") /\ UNCHANGED <<type_guarantees, types>>
           ELSE IF g \in GetSet(type_guarantees, t)
           THEN BsRaise("TypecheckError") /\ UNCHANGED <<type_guarantees, types>>
           ELSE /\ BsAdvance
                /\ type_guarantees' =
                       Put(type_guarantees, t, GetSet(type_guarantees, t) \cup {g})
                /\ types' = types \cup {t}
    /\ UNCHANGED <<bs_items, guarantees, typegroups, sigs, sig_failures,
                   sig_attrs, funcs, impls, lvars, evars, rvars>>

RECURSIVE impl_methods(_, _, _, _)
\* symbols_builder.py:232-238: the loop over item.methods from position j;
\* the impls it leaves, and whether it raised TypecheckError at a key that
\* is already there
impl_methods(item, j, t, acc) ==
    IF j > Len(item.methods) THEN [raised |-> FALSE, impls |-> acc]
    ELSE LET key == <<t, item.guarantee, item.methods[j].name>>
         IN  IF key \in DOMAIN acc THEN [raised |-> TRUE, impls |-> acc]
             ELSE impl_methods(item, j + 1, t, Put(acc, key, item.methods[j].builtin))

\* symbols_builder.py:225-241
BuildImpl ==
    /\ BsAt("ImplDecl")
    /\ LET t == BsItem.typ.name
           g == BsItem.guarantee
           r == impl_methods(BsItem, 1, t, impls)
       IN  /\ type_guarantees' =
                  Put(type_guarantees, t, GetSet(type_guarantees, t) \cup {g})
           /\ impls' = r.impls
           /\ IF r.raised
              THEN BsRaise("TypecheckError") /\ UNCHANGED types
              ELSE BsAdvance /\ types' = types \cup {t}
    /\ UNCHANGED <<bs_items, guarantees, typegroups, sigs, sig_failures,
                   sig_attrs, funcs, lvars, evars, rvars>>

\* symbols_builder.py:243-244 and every item kind the loop has no branch for
BuildSkip ==
    /\ bs_status = "building"
    /\ bs_i \in 1..Len(bs_items)
    /\ BsItem.k \notin {"GuaranteeDecl", "TypeGroupDecl", "SigDecl", "FuncDecl",
                        "RegisterDecl", "ImplDecl"}
    /\ BsAdvance
    /\ UNCHANGED <<bs_items, guarantees, typegroups, type_guarantees, sigs,
                   sig_failures, sig_attrs, funcs, impls, types, lvars, evars, rvars>>

\* _validate_catalog without its third loop (symbols_builder.py:285-289)
validate_catalog_no_builtins(tg, gs, im) ==
    /\ \A t \in DOMAIN tg : \A g \in tg[t] : g \in DOMAIN gs
    /\ \A t \in DOMAIN tg : \A g \in tg[t] :
          \A j \in 1..Len(gs[g].methods) :
              <<t, g, gs[g].methods[j].name>> \in DOMAIN im

\* symbols_builder.py:266-289: TRUE when _validate_catalog returns, FALSE when
\* it raises TypecheckError
validate_catalog(tg, gs, im) ==
    /\ \A t \in DOMAIN tg : \A g \in tg[t] : g \in DOMAIN gs
    /\ \A t \in DOMAIN tg : \A g \in tg[t] :
          \A j \in 1..Len(gs[g].methods) :
              <<t, g, gs[g].methods[j].name>> \in DOMAIN im
    /\ \A key \in DOMAIN im : im[key] \in BUILTINS

\* symbols_builder.py:246-261
BuildReturn ==
    /\ bs_status = "building"
    /\ bs_i = Len(bs_items) + 1
    /\ bs_status' = IF validate_catalog(type_guarantees, guarantees, impls)
                    THEN "returned" ELSE "TypecheckError"
    /\ UNCHANGED <<bs_items, bs_i, guarantees, typegroups, type_guarantees, sigs,
                   sig_failures, sig_attrs, funcs, impls, types, lvars, evars, rvars>>

(***************************************************************************)
(* Programs handed to the lowerer: every Program whose size (one per       *)
(* top-level item plus one per BinaryExpr or CallExpr node) is at most     *)
(* MaxSize, over the node kinds of ast.py.                                 *)
(***************************************************************************)
MaxSize == 3

Ops == {"+", "-", "*", "/"}

Atoms == {IntLit(1)}

RECURSIVE ExprsN(_)
\* the expressions with exactly n BinaryExpr/CallExpr nodes
ExprsN(n) ==
    IF n = 0 THEN Atoms
    ELSE LET Pairs == UNION {ExprsN(a) \X ExprsN(n - 1 - a) : a \in 0..(n - 1)}
         IN  {BinaryExpr(o, p[1], p[2]) : o \in Ops, p \in Pairs}
             \cup {CallExpr("f", <<PosArg(a)>>, "pos") : a \in ExprsN(n - 1)}
             \cup {CallExpr("f", <<NamedArg("a", a)>>, "named") : a \in ExprsN(n - 1)}
             \cup {CallExpr("g", <<PosArg(p[1]), PosArg(p[2])>>, "pos") : p \in Pairs}
             \cup (IF n = 1 THEN {CallExpr("h", <<>>, "pos")} ELSE {})

\* the top-level items whose expression has exactly n such nodes
ItemsN(n) ==
    UNION {{ExprStmt(e), TryStmt(e), CatchStmt("PrintErr", e),
            VarDecl(FALSE, TypeRef("Int"), "x", e), AssignStmt("x", e),
            FuncDecl("f", <<Param("a", TypeRef("Int"))>>,
                     BlockStmt(<<ExprStmt(e), ReturnStmt(e)>>), <<>>)}
           : e \in ExprsN(n)}
    \cup (IF n = 0 THEN {RegisterDecl(TypeRef("Int"), "Addable")} ELSE {})

RECURSIVE Programs(_)
\* the Programs of size at most b
Programs(b) ==
    {<<>>} \cup
    UNION {{<<it>> \o rest : it \in ItemsN(n), rest \in Programs(b - 1 - n)}
           : n \in 0..(b - 1)}

NoProgram == <<[k |-> "none"]>>

LowerInit ==
    /\ lw_prog \in Programs(MaxSize)
    /\ lw_out = NoProgram
    /\ lw_out2 = NoProgram
    /\ lw_pc = "parsed"
    /\ ps_toks = <<>>
    /\ ps_err = "none"
    /\ CatalogIdle
    /\ BuildIdle
    /\ EvalIdle
    /\ RunIdle

\* pipeline.py:10  prog = lower_program(prog)
Lower ==
    /\ lw_pc = "parsed"
    /\ lw_out' = lower_program(lw_prog)
    /\ lw_pc' = "lowered"
    /\ UNCHANGED <<lw_prog, lw_out2, ps_toks, ps_err, cvars, bvars, evars, rvars>>

\* a second application of lower_program to the lowered Program
LowerAgain ==
    /\ lw_pc = "lowered"
    /\ lw_out2' = lower_program(lw_out)
    /\ lw_pc' = "relowered"
    /\ UNCHANGED <<lw_prog, lw_out, ps_toks, ps_err, cvars, bvars, evars, rvars>>

LowerNext == Lower \/ LowerAgain

SpecLower == LowerInit /\ [][LowerNext]_vars

(***************************************************************************)
(* tokenizer.py, parser.py: expressions and the top-level statements, over *)
(* the list of tokens that tokenize returns (it ends with EOF)             *)
(***************************************************************************)
\* tokenizer.py:4-8
Token(k, t) == [kind |-> k, text |-> t]

Sym(t) == Token("SYM", t)

Kw(t) == Token("KW", t)

Ident(t) == Token("IDENT", t)

IntTok(t) == Token("INT", t)

Eof == Token("EOF", "")

Newline == Token("NEWLINE", "\\n")

\* parser.py:37-44: match(kind, text) and match(kind) at position i
match(toks, i, kind, text) == toks[i].kind = kind /\ toks[i].text = text

match_kind(toks, i, kind) == toks[i].kind = kind

\* every operator at one level of precedence
PRECEDENCE_flat(op) == 10

\* parser.py:17-22
PRECEDENCE(op) == IF op \in {"+", "-"} THEN 10 ELSE 20

\* parser.py:502-503
is_op(toks, i) == toks[i].kind = "SYM" /\ toks[i].text \in Ops

\* int(text) and float(text) of parser.py:580-583, on the literals written
int_of(text) ==
    CASE text = "0" -> 0 [] text = "1" -> 1 [] text = "2" -> 2 [] text = "3" -> 3

float_of(text) == CASE text = "1.0" -> 1 [] text = "2.0" -> 2

\* what a parse method returns: the node, the position self.i after it and
\* saw_op; or the SyntaxError it raises
PsOk(e, i, saw) == [st |-> "ok", e |-> e, i |-> i, saw |-> saw]

PsFail == [st |-> "SyntaxError", e |-> IntLit(0), i |-> 0, saw |-> FALSE]

RECURSIVE parse_expr(_, _)
RECURSIVE parse_paren_infix_expr(_, _)
RECURSIVE parse_infix(_, _, _)
RECURSIVE parse_infix_loop(_, _, _, _, _)
RECURSIVE parse_operand(_, _)
RECURSIVE parse_args(_, _)
RECURSIVE parse_args_loop(_, _, _, _)

\* parser.py:505-519
parse_expr(toks, i) ==
    IF match(toks, i, "SYM", "(") THEN parse_paren_infix_expr(toks, i)
    ELSE LET after(r) == IF r.st # "ok" THEN r
                         ELSE IF is_op(toks, r.i) THEN PsFail
                         ELSE r
         IN  after(parse_operand(toks, i))

\* parser.py:521-535
parse_paren_infix_expr(toks, i) ==
    IF ~match(toks, i, "SYM", "(") THEN PsFail
    ELSE LET after(r) == IF r.st # "ok" THEN r
                         ELSE IF ~match(toks, r.i, "SYM", ")") THEN PsFail
                         ELSE IF ~r.saw THEN PsFail
                         ELSE PsOk(r.e, r.i + 1, FALSE)
         IN  after(parse_infix(toks, i + 1, 0))

\* parser.py:537-540
parse_infix(toks, i, min_prec) ==
    LET after(l) == IF l.st # "ok" THEN l
                    ELSE parse_infix_loop(toks, l.i, min_prec, l.e, FALSE)
    IN  after(parse_operand(toks, i))

\* parser.py:542-556: the while loop, with left and saw_op so far
parse_infix_loop(toks, i, min_prec, left, saw_op) ==
    IF ~is_op(toks, i) THEN PsOk(left, i, saw_op)
    ELSE LET op == toks[i].text
             after(r) == IF r.st # "ok" THEN r
                         ELSE parse_infix_loop(toks, r.i, min_prec,
                                               BinaryExpr(op, left, r.e), TRUE)
             climb(prec) == IF prec < min_prec THEN PsOk(left, i, saw_op)
                            ELSE after(parse_infix(toks, i + 1, prec + 1))
         IN  climb(PRECEDENCE(op))

\* parser.py:558-585
parse_operand(toks, i) ==
    IF match(toks, i, "SYM", "-") THEN PsFail
    ELSE IF match(toks, i, "SYM", "(") THEN parse_paren_infix_expr(toks, i)
    ELSE IF match_kind(toks, i, "IDENT")
    THEN IF match(toks, i + 1, "SYM", "(")
         THEN LET after(a) ==
                      IF a.st # "ok" THEN PsFail
                      ELSE IF ~match(toks, a.i, "SYM", ")") THEN PsFail
                      ELSE PsOk(CallExpr(toks[i].text, a.args, a.style), a.i + 1, FALSE)
              IN  after(parse_args(toks, i + 2))
         ELSE PsOk(IdentExpr(toks[i].text), i + 1, FALSE)
    ELSE IF match_kind(toks, i, "INT")
    THEN PsOk(IntLit(int_of(toks[i].text)), i + 1, FALSE)
    ELSE IF match_kind(toks, i, "FLOAT")
    THEN PsOk(FloatLit(float_of(toks[i].text)), i + 1, FALSE)
    ELSE PsFail

\* parser.py:633-636
parse_args(toks, i) ==
    IF match(toks, i, "SYM", ")")
    THEN [st |-> "ok", args |-> <<>>, style |-> "pos", i |-> i]
    ELSE parse_args_loop(toks, i, <<>>, "None")

\* parser.py:641-671: the while loop, with args and style so far
parse_args_loop(toks, i, args, style) ==
    LET named == match_kind(toks, i, "IDENT") /\ match(toks, i + 1, "SYM", ":")
        style1 == IF named THEN "named" ELSE "pos"
        more(r, args1) ==
            IF match(toks, r.i, "SYM", ",")
            THEN parse_args_loop(toks, r.i + 1, args1, style1)
            ELSE [st |-> "ok", args |-> args1, style |-> style1, i |-> r.i]
        after(r) ==
            IF r.st # "ok"
            THEN [st |-> "SyntaxError", args |-> args, style |-> style1, i |-> i]
            ELSE more(r, Append(args, IF named THEN NamedArg(toks[i].text, r.e)
                                                ELSE PosArg(r.e)))
    IN  IF style \notin {"None", style1}
        THEN [st |-> "SyntaxError", args |-> args, style |-> style, i |-> i]
        ELSE after(parse_expr(toks, IF named THEN i + 2 ELSE i))

\* what parse_toplevel returns: the item and the position after it
TopOk(item, i) == [st |-> "ok", item |-> item, i |-> i]

TopFail == [st |-> "SyntaxError", item |-> ExprStmt(IntLit(0)), i |-> 0]

\* the statement made of the expression parse_expr returns
TopOf(r, item) == IF r.st = "ok" THEN TopOk(item, r.i) ELSE TopFail

\* parser.py:449-462
parse_let_var_decl(toks, i, mutable) ==
    IF ~match_kind(toks, i + 1, "IDENT") THEN TopFail
    ELSE IF ~match(toks, i + 2, "SYM", ":") THEN TopFail
    ELSE IF ~match_kind(toks, i + 3, "IDENT") THEN TopFail
    ELSE IF ~match(toks, i + 4, "SYM", "=") THEN TopFail
    ELSE LET after(r) ==
                 TopOf(r, VarDecl(mutable, TypeRef(toks[i + 3].text), toks[i + 1].text, r.e))
         IN  after(parse_expr(toks, i + 5))

\* parser.py:177-204: catch, whose handler is the rest of the line, parsed
\* by a Parser of its own
parse_catch(toks, i) ==
    IF ~match_kind(toks, i + 1, "IDENT") THEN TopFail
    ELSE
    LET handler(stop, handler_tokens) ==
            LET stmt(r) ==
                    IF r.st # "ok" THEN TopFail
                    ELSE TopOk(CatchStmt(toks[i + 1].text, r.e),
                               IF toks[stop].kind = "NEWLINE" THEN stop + 1 ELSE stop)
            IN  IF handler_tokens = <<>> THEN TopFail
                ELSE IF handler_tokens[1].kind = "KW"
                            /\ handler_tokens[1].text \in {"try", "catch"} THEN TopFail
                ELSE stmt(parse_expr(handler_tokens \o <<Eof>>, 1))
        upto(stop) == handler(stop, SubSeq(toks, i + 2, stop - 1))
    IN  upto(CHOOSE j \in (i + 2)..Len(toks) :
                 /\ toks[j].kind \in {"NEWLINE", "EOF"}
                 /\ \A h \in (i + 2)..(j - 1) : toks[h].kind \notin {"NEWLINE", "EOF"})

\* parser.py:217-223: the parts of IDENT ('.' IDENT)*, from position i on
RECURSIVE parse_dotted_name(_, _, _)
parse_dotted_name(toks, i, parts) ==
    IF ~match_kind(toks, i, "IDENT") THEN [st |-> "SyntaxError", name |-> parts, i |-> i]
    ELSE IF match(toks, i + 1, "SYM", ".")
    THEN parse_dotted_name(toks, i + 2, Append(parts, toks[i].text))
    ELSE [st |-> "ok", name |-> Append(parts, toks[i].text), i |-> i + 1]

\* parser.py:244-262: the while loop, with tys so far
RECURSIVE parse_sig_param_types(_, _, _)
parse_sig_param_types(toks, i, tys) ==
    IF tys = <<>> /\ match(toks, i, "SYM", ")") THEN [st |-> "ok", tys |-> tys, i |-> i]
    ELSE IF ~match_kind(toks, i, "IDENT") THEN [st |-> "SyntaxError", tys |-> tys, i |-> i]
    ELSE IF match(toks, i + 1, "SYM", ",")
    THEN parse_sig_param_types(toks, i + 2, Append(tys, TypeRef(toks[i].text)))
    ELSE [st |-> "ok", tys |-> Append(tys, TypeRef(toks[i].text)), i |-> i + 1]

\* what the loop over a sig body returns, or the SyntaxError it raises
SigBody(st, requires, failures, builtin, i) ==
    [st |-> st, requires |-> requires, failures |-> failures, builtin |-> builtin, i |-> i]

\* parser.py:370-383: failure f, with the failures collected so far
parse_failure(f, failures) ==
    IF f = "Never"
    THEN [st |-> IF failures # <<>> THEN "SyntaxError" ELSE "ok", failures |-> failures]
    ELSE IF \E j \in 1..Len(failures) : failures[j] = f
    THEN [st |-> "SyntaxError", failures |-> failures]
    ELSE [st |-> "ok", failures |-> Append(failures, f)]

\* parser.py:359-396: the while loop over the body of a sig
RECURSIVE parse_sig_body(_, _, _, _, _)
parse_sig_body(toks, i, requires, failures, builtin) ==
    IF match_kind(toks, i, "NEWLINE")
    THEN parse_sig_body(toks, i + 1, requires, failures, builtin)
    ELSE IF match(toks, i, "SYM", "}")
    THEN SigBody("ok", requires, failures, builtin, i)
    ELSE IF match(toks, i, "KW", "require")
    THEN \* parser.py:429-447
         IF ~match_kind(toks, i + 1, "IDENT")
         THEN SigBody("SyntaxError", requires, failures, builtin, i)
         ELSE IF ~(match(toks, i + 2, "KW", "in") \/ match(toks, i + 2, "KW", "guarantees"))
         THEN SigBody("SyntaxError", requires, failures, builtin, i)
         ELSE IF ~match_kind(toks, i + 3, "IDENT")
         THEN SigBody("SyntaxError", requires, failures, builtin, i)
         ELSE parse_sig_body(toks, i + 4,
                  Append(requires,
                         IF toks[i + 2].text = "in"
                         THEN [k |-> "RequireIn", type_var |-> toks[i + 1].text,
                               group_name |-> toks[i + 3].text]
                         ELSE RequireGuarantees(toks[i + 1].text, toks[i + 3].text)),
                  failures, builtin)
    ELSE IF match(toks, i, "KW", "failure")
    THEN IF ~match_kind(toks, i + 1, "IDENT")
         THEN SigBody("SyntaxError", requires, failures, builtin, i)
         ELSE LET after(r) ==
                      IF r.st # "ok" THEN SigBody("SyntaxError", requires, failures, builtin, i)
                      ELSE parse_sig_body(toks, i + 2, requires, r.failures, builtin)
              IN  after(parse_failure(toks[i + 1].text, failures))
    ELSE IF match(toks, i, "KW", "builtin")
    THEN IF builtin # <<>> THEN SigBody("SyntaxError", requires, failures, builtin, i)
         ELSE LET after(d) ==
                      IF d.st # "ok" THEN SigBody("SyntaxError", requires, failures, builtin, i)
                      ELSE parse_sig_body(toks, d.i, requires, failures, d.name)
              IN  after(parse_dotted_name(toks, i + 1, <<>>))
    ELSE SigBody("SyntaxError", requires, failures, builtin, i)

\* parser.py:343-408.  The keywords failures and builtin handed to SigDecl
\* at parser.py:400-408 are no fields of ast.SigDecl (ast.py:131-138):
\* the constructor raises TypeError whenever the body has been read.
parse_sig(toks, i) ==
    IF ~match_kind(toks, i + 1, "IDENT") THEN TopFail
    ELSE IF ~match(toks, i + 2, "SYM", "(") THEN TopFail
    ELSE
    LET body(b) ==
            IF b.st # "ok" THEN TopFail
            ELSE [st |-> "TypeError", item |-> ExprStmt(IntLit(0)), i |-> b.i + 1]
        after(ps) ==
            IF ps.st # "ok" THEN TopFail
            ELSE IF ~match(toks, ps.i, "SYM", ")") THEN TopFail
            ELSE IF ~match(toks, ps.i + 1, "SYM", "->") THEN TopFail
            ELSE IF ~match_kind(toks, ps.i + 2, "IDENT") THEN TopFail
            ELSE IF ~match(toks, ps.i + 3, "SYM", "{") THEN TopFail
            ELSE body(parse_sig_body(toks, ps.i + 4, <<>>, <<>>, <<>>))
    IN  after(parse_sig_param_types(toks, i + 3, <<>>))

\* parser.py:124-215, for a source without attributes and without
\* declarations other than sig
parse_toplevel(toks, i) ==
    LET try(r) == TopOf(r, TryStmt(r.e))
        assign(r) == TopOf(r, AssignStmt(toks[i].text, r.e))
        stmt(r) == TopOf(r, ExprStmt(r.e))
    IN  IF match(toks, i, "KW", "sig") THEN parse_sig(toks, i)
        ELSE IF match(toks, i, "KW", "let") THEN parse_let_var_decl(toks, i, FALSE)
        ELSE IF match(toks, i, "KW", "var") THEN parse_let_var_decl(toks, i, TRUE)
        ELSE IF match(toks, i, "KW", "try") THEN try(parse_expr(toks, i + 1))
        ELSE IF match(toks, i, "KW", "catch") THEN parse_catch(toks, i)
        ELSE IF match_kind(toks, i, "IDENT") /\ match(toks, i + 1, "SYM", "=")
        THEN assign(parse_expr(toks, i + 2))
        ELSE IF match_kind(toks, i, "IDENT") /\ match(toks, i + 1, "SYM", "(")
        THEN stmt(parse_expr(toks, i))
        ELSE TopFail

\* parser.py:109-122: the loop of parse_program, with items so far
RECURSIVE parse_program(_, _, _)
parse_program(toks, i, items) ==
    IF match_kind(toks, i, "NEWLINE") THEN parse_program(toks, i + 1, items)
    ELSE IF match_kind(toks, i, "EOF") THEN [st |-> "ok", items |-> items]
    ELSE LET after(t) == IF t.st # "ok" THEN [st |-> t.st, items |-> items]
                         ELSE parse_program(toks, t.i, Append(items, t.item))
         IN  after(parse_toplevel(toks, i))

(***************************************************************************)
(* The sources parsed: every string of at most MaxToks tokens over ( ) -   *)
(* * and an identifier, every parenthesised chain of at most MaxOps        *)
(* operators over named operands, alone and followed by one more operator  *)
(* and operand, and some sources written out; each as a statement, under   *)
(* try, under catch, and as the right-hand side of an assignment and of a  *)
(* let.                                                                    *)
(***************************************************************************)
MaxToks == 5

MaxOps == 3

Alphabet == {Sym("("), Sym(")"), Sym("-"), Sym("*"), Ident("x")}

Strings == UNION {[1..n -> Alphabet] : n \in 0..MaxToks}

\* the operand at position j of a chain
Operand(j) ==
    Ident(CASE j = 1 -> "a" [] j = 2 -> "b" [] j = 3 -> "c" [] j = 4 -> "d"
            [] OTHER -> "e")

\* the tokens of ( a o[1] b o[2] c ... ), n operators
Chain(o, n) ==
    <<Sym("(")>>
        \o [j \in 1..(2 * n + 1) |->
               IF j % 2 = 1 THEN Operand((j + 1) \div 2) ELSE Sym(o[j \div 2])]
        \o <<Sym(")")>>

Chains == UNION {{Chain(o, n) : o \in [1..n -> Ops]} : n \in 1..MaxOps}

\* a chain followed by an operator and an operand outside its parentheses
Trailed == {c \o <<Sym(o), Ident("t")>> : c \in Chains, o \in Ops}

\* (x), (div(1, 2)), ((1 + 2)), f((1 + 2), k: 2.0) and two lines
Written ==
    {<<Sym("("), Ident("div"), Sym("("), IntTok("1"), Sym(","), IntTok("2"), Sym(")"),
       Sym(")")>>,
     <<Sym("("), Sym("("), IntTok("1"), Sym("+"), IntTok("2"), Sym(")"), Sym(")")>>,
     <<Ident("f"), Sym("("), Sym("("), IntTok("1"), Sym("+"), IntTok("2"), Sym(")"),
       Sym(","), Ident("k"), Sym(":"), Token("FLOAT", "2.0"), Sym(")")>>,
     <<Ident("f"), Sym("("), Ident("k"), Sym(":"), IntTok("3"), Sym("/"), IntTok("0"),
       Sym(")")>>,
     <<Ident("f"), Sym("("), IntTok("1"), Sym(")"), Newline, Newline, Kw("catch"),
       Ident("E"), Ident("g"), Sym("("), Sym(")"), Newline>>}

Bodies == Strings \cup Chains \cup Trailed \cup Written

Positions == {"stmt", "try", "catch", "assign", "let"}

\* the tokens before the expression at the position pos
Before(pos) ==
    CASE pos = "stmt" -> <<>>
      [] pos = "try" -> <<Kw("try")>>
      [] pos = "catch" -> <<Kw("catch"), Ident("E")>>
      [] pos = "assign" -> <<Ident("v"), Sym("=")>>
      [] pos = "let" -> <<Kw("let"), Ident("v"), Sym(":"), Ident("Int"), Sym("=")>>

MaxFails == 2

FailureNames == {"Never", "PrintErr", "IOErr"}

\* sig f() -> Unit { failure fs[1] ... failure fs[n] }, a line for each
SigSource(fs) ==
    <<Kw("sig"), Ident("f"), Sym("("), Sym(")"), Sym("->"), Ident("Unit"), Sym("{")>>
        \o [j \in 1..(3 * Len(fs)) |->
               CASE j % 3 = 1 -> Newline
                 [] j % 3 = 2 -> Kw("failure")
                 [] OTHER -> Ident(fs[j \div 3])]
        \o <<Sym("}"), Eof>>

\* sig g(T, T) -> T { require T guarantees Addable  builtin core.int.add
\* builtin core.int.sub }
SigWritten ==
    <<Kw("sig"), Ident("g"), Sym("("), Ident("T"), Sym(","), Ident("T"), Sym(")"),
      Sym("->"), Ident("T"), Sym("{"), Kw("require"), Ident("T"), Kw("guarantees"),
      Ident("Addable"), Newline, Kw("builtin"), Ident("core"), Sym("."), Ident("int"),
      Sym("."), Ident("add"), Newline, Kw("builtin"), Ident("core"), Sym("."),
      Ident("int"), Sym("."), Ident("sub"), Sym("}"), Eof>>

SigSources ==
    {SigSource(fs) : fs \in UNION {[1..n -> FailureNames] : n \in 0..MaxFails}}
        \cup {SigWritten}

Sources ==
    {Before(pos) \o b \o <<Eof>> : pos \in Positions, b \in Bodies} \cup SigSources

\* parser.py:26-28
ParseInit ==
    /\ ps_toks \in Sources
    /\ ps_err = "none"
    /\ lw_prog = <<>>
    /\ lw_out = NoProgram
    /\ lw_out2 = NoProgram
    /\ lw_pc = "source"
    /\ CatalogIdle
    /\ BuildIdle
    /\ EvalIdle
    /\ RunIdle

\* parser.py:674-675, pipeline.py:9: prog = parse(src)
Parse ==
    /\ lw_pc = "source"
    /\ LET returned(r) ==
               IF r.st = "ok"
               THEN lw_prog' = r.items /\ lw_pc' = "parsed" /\ ps_err' = ps_err
               ELSE lw_prog' = lw_prog /\ lw_pc' = "raised" /\ ps_err' = r.st
       IN  returned(parse_program(ps_toks, 1, <<>>))
    /\ UNCHANGED <<ps_toks, lw_out, lw_out2, cvars, bvars, evars, rvars>>

ParseNext == Parse \/ Lower \/ LowerAgain

SpecParse == ParseInit /\ [][ParseNext]_vars

(***************************************************************************)
(* core/catalog_loader.py: JSON values carry their JSON type in field j;   *)
(* an object is a function from its keys, an array is a sequence           *)
(***************************************************************************)
JStr(s) == [j |-> "str", str |-> s]

JNum(n) == [j |-> "num", num |-> n]

JNull == [j |-> "null"]

JObj(d) == [j |-> "obj", obj |-> d]

JArr(a) == [j |-> "arr", arr |-> a]

\* obj.get(key): None, which is how JSON null is read, when the key is absent
get(obj, key) == IF key \in DOMAIN obj.obj THEN obj.obj[key] ELSE JNull

\* obj.get(key, []) where a list is expected
get_list(obj, key) == IF key \in DOMAIN obj.obj THEN obj.obj[key].arr ELSE <<>>

isinstance(x, t) == x.j = t

Loaded(item) == [st |-> "ok", item |-> item]

NotLoaded(exc) == [st |-> exc, item |-> <<>>]

\* a list comprehension or loop over entries with F: the items made, or
\* the exception of the first entry that raises
LoadAll(entries, F(_)) ==
    LET bad == {h \in 1..Len(entries) : F(entries[h]).st # "ok"}
    IN  IF bad = {} THEN Loaded([h \in 1..Len(entries) |-> F(entries[h]).item])
        ELSE NotLoaded(F(entries[CHOOSE h \in bad : \A g \in bad : h <= g]).st)

\* catalog_loader.py:19-29
type_ref(obj) ==
    IF isinstance(obj, "str") THEN Loaded(TypeRef(obj.str))
    ELSE IF isinstance(obj, "obj") /\ "ref" \in DOMAIN obj.obj /\ isinstance(obj.obj["ref"], "str")
    THEN Loaded(TypeRef(obj.obj["ref"].str))
    ELSE NotLoaded("ValueError")

\* catalog_loader.py:32-44
param(obj) ==
    IF ~isinstance(obj, "obj") THEN NotLoaded("ValueError")
    ELSE IF ~isinstance(get(obj, "name"), "str") THEN NotLoaded("ValueError")
    ELSE LET t == type_ref(IF "type" \in DOMAIN obj.obj THEN obj.obj["type"]
                            ELSE get(obj, "typ"))
         IN  IF t.st # "ok" THEN t ELSE Loaded(Param(get(obj, "name").str, t.item))

\* catalog_loader.py:47-61
require(obj) ==
    IF ~isinstance(obj, "obj") THEN NotLoaded("ValueError")
    ELSE IF get(obj, "kind") # JStr("guarantees") THEN NotLoaded("ValueError")
    ELSE IF ~isinstance(get(obj, "type_var"), "str")
               \/ ~isinstance(get(obj, "guarantee"), "str")
    THEN NotLoaded("ValueError")
    ELSE Loaded(RequireGuarantees(get(obj, "type_var").str, get(obj, "guarantee").str))

\* catalog_loader.py:85-94
load_method_sig(m) ==
    IF ~isinstance(m, "obj") THEN NotLoaded("ValueError")
    ELSE IF ~isinstance(get(m, "name"), "str") THEN NotLoaded("ValueError")
    ELSE LET params == LoadAll(get_list(m, "params"), param)
             ret == type_ref(get(m, "ret"))
         IN  IF params.st # "ok" THEN params
             ELSE IF ret.st # "ok" THEN ret
             ELSE Loaded(FuncSig(get(m, "name").str, params.item, ret.item))

\* catalog_loader.py:77-96
load_guarantee(g) ==
    IF ~isinstance(g, "obj") THEN NotLoaded("ValueError")
    ELSE IF ~isinstance(get(g, "name"), "str") THEN NotLoaded("ValueError")
    ELSE LET methods == LoadAll(get_list(g, "methods"), load_method_sig)
         IN  IF methods.st # "ok" THEN methods
             ELSE Loaded(GuaranteeDecl(get(g, "name").str, methods.item))

\* catalog_loader.py:108-115
load_impl_method(m) ==
    IF ~isinstance(m, "obj") THEN NotLoaded("ValueError")
    ELSE IF ~isinstance(get(m, "name"), "str") \/ ~isinstance(get(m, "builtin"), "str")
    THEN NotLoaded("ValueError")
    ELSE Loaded(ImplMethod(get(m, "name").str, get(m, "builtin").str))

\* catalog_loader.py:99-117
load_impl(imp) ==
    IF ~isinstance(imp, "obj") THEN NotLoaded("ValueError")
    ELSE LET typ == type_ref(IF "type" \in DOMAIN imp.obj THEN imp.obj["type"]
                              ELSE get(imp, "typ"))
             methods == LoadAll(get_list(imp, "methods"), load_impl_method)
         IN  IF typ.st # "ok" THEN typ
             ELSE IF ~isinstance(get(imp, "guarantee"), "str") THEN NotLoaded("ValueError")
             ELSE IF methods.st # "ok" THEN methods
             ELSE Loaded(ImplDecl(typ.item, get(imp, "guarantee").str, methods.item))

\* catalog_loader.py:119-149.  The keywords failures and builtin handed to
\* SigDecl at catalog_loader.py:138-148 are no fields of ast.SigDecl
\* (ast.py:131-138): the constructor raises TypeError for every entry that
\* passed the checks before it.
load_sig(s) ==
    IF ~isinstance(s, "obj") THEN NotLoaded("ValueError")
    ELSE IF ~isinstance(get(s, "name"), "str") THEN NotLoaded("ValueError")
    ELSE LET params == LoadAll(get_list(s, "params"), type_ref)
             ret == type_ref(get(s, "ret"))
             requires == LoadAll(get_list(s, "requires"), require)
             builtin == get(s, "builtin")
         IN  IF params.st # "ok" THEN params
             ELSE IF ret.st # "ok" THEN ret
             ELSE IF requires.st # "ok" THEN requires
             ELSE IF builtin # JNull /\ ~isinstance(builtin, "str")
             THEN NotLoaded("ValueError")
             ELSE NotLoaded("TypeError")

\* catalog_loader.py:64-151
load_core_catalog_json(data) ==
    IF ~isinstance(data, "obj") THEN NotLoaded("ValueError")
    ELSE LET gs == LoadAll(get_list(data, "guarantees"), load_guarantee)
             is == LoadAll(get_list(data, "impls"), load_impl)
             ss == LoadAll(get_list(data, "sigs"), load_sig)
         IN  IF gs.st # "ok" THEN gs
             ELSE IF is.st # "ok" THEN is
             ELSE IF ss.st # "ok" THEN ss
             ELSE Loaded(gs.item \o is.item \o ss.item)

(***************************************************************************)
(* The catalogs loaded: at most one guarantee and one impl, and at most    *)
(* MaxSigs sig entries, with and without the key builtin                   *)
(***************************************************************************)
MaxSigs == 2

\* the objects with some of the keys of d
Some(d, keys) == {JObj([key \in ks |-> d[key]]) : ks \in {x \in SUBSET DOMAIN d : keys \subseteq x}}

SelfParam == JObj([name |-> JStr("self"), type |-> JObj([ref |-> JStr("Self")])])

GuaranteeEntries ==
    {JObj([name |-> JStr("Printable"), methods |-> JArr(<<>>)]),
     JObj([name |-> JStr("Printable"),
           methods |-> JArr(<<JObj([name |-> JStr("print"), params |-> JArr(<<SelfParam>>),
                                    ret |-> JStr("Unit")])>>)]),
     JObj([name |-> JStr("Printable"),
           methods |-> JArr(<<JObj([name |-> JStr("print")])>>)]),
     JObj([methods |-> JArr(<<>>)])}

ImplEntries ==
    {JObj([type |-> JStr("Int"), guarantee |-> JStr("Printable"),
           methods |-> JArr(<<JObj([name |-> JStr("print"),
                                    builtin |-> JStr("core.int.print")])>>)]),
     JObj([typ |-> JObj([ref |-> JStr("Int")]), guarantee |-> JStr("Printable")]),
     JObj([type |-> JStr("Int"), guarantee |-> JStr("Printable"),
           methods |-> JArr(<<JObj([name |-> JStr("print"), builtin |-> JNull])>>)])}

\* the values written for the key builtin of a sig
BuiltinValues == {JStr("core.int.print"), JNull, JNum(0), JArr(<<>>)}

SigEntries ==
    UNION {Some([name |-> JStr("print"),
                 params |-> JArr(<<JStr("T")>>),
                 ret |-> JObj([ref |-> JStr("Unit")]),
                 requires |-> JArr(<<JObj([kind |-> JStr("guarantees"),
                                           type_var |-> JStr("T"),
                                           guarantee |-> JStr("Printable")])>>),
                 builtin |-> b], {"params", "requires"}) : b \in BuiltinValues}
        \cup {JObj([name |-> JStr("print"), ret |-> JStr("Unit"), builtin |-> JNull,
                    requires |-> JArr(<<JObj([kind |-> JStr("in")])>>)])}

UpTo(n, S) == UNION {[1..h -> S] : h \in 0..n}

Catalogs ==
    {JObj([guarantees |-> JArr(g), impls |-> JArr(i), sigs |-> JArr(ss)]) :
         g \in UpTo(1, GuaranteeEntries), i \in UpTo(1, ImplEntries),
         ss \in UpTo(MaxSigs, SigEntries)}
        \cup {JObj(<<>>), JArr(<<>>)}

\* catalog_loader.py:69-72
CatalogInit ==
    /\ cl_data \in Catalogs
    /\ cl_out = <<>>
    /\ cl_pc = "start"
    /\ cl_err = "none"
    /\ lw_prog = <<>>
    /\ lw_out = NoProgram
    /\ lw_out2 = NoProgram
    /\ lw_pc = "idle"
    /\ ps_toks = <<>>
    /\ ps_err = "none"
    /\ BuildIdle
    /\ EvalIdle
    /\ RunIdle

\* core/prelude.py:7: load_core_catalog_json(catalog)
LoadCatalog ==
    /\ cl_pc = "start"
    /\ LET r == load_core_catalog_json(cl_data)
       IN  IF r.st = "ok"
           THEN cl_out' = r.item /\ cl_pc' = "returned" /\ cl_err' = cl_err
           ELSE cl_out' = cl_out /\ cl_pc' = "raised" /\ cl_err' = r.st
    /\ UNCHANGED <<cl_data, lw_prog, lw_out, lw_out2, lw_pc, ps_toks, ps_err,
                   bvars, evars, rvars>>

SpecCatalog == CatalogInit /\ [][LoadCatalog]_vars

(***************************************************************************)
(* Declarations handed to build_symbols: every sequence of at most         *)
(* MaxDecls items of Decls.                                                *)
(***************************************************************************)
MaxDecls == 3

UnitBlock == BlockStmt(<<ExprStmt(IntLit(1))>>)

Decls ==
    {GuaranteeDecl("Printable",
                   <<FuncSig("print", <<Param("self", TypeRef("Self"))>>, TypeRef("Unit"))>>),
     GuaranteeDecl("Marker", <<>>),
     ImplDecl(TypeRef("Int"), "Printable", <<ImplMethod("print", "core.int.print")>>),
     ImplDecl(TypeRef("Int"), "Printable", <<ImplMethod("print", "core.int.show")>>),
     ImplDecl(TypeRef("Float"), "Printable", <<>>),
     RegisterDecl(TypeRef("Int"), "Marker"),
     TypeGroupDecl("Number", <<TypeRef("Int"), TypeRef("Float")>>),
     SigDecl("f", <<>>, TypeRef("Unit"), <<>>, TypeRef("Never"), <<"handled">>),
     SigDecl("g", <<TypeRef("Int"), TypeRef("Float")>>, TypeRef("Unit"), <<>>,
             TypeRef("PrintErr"), <<>>),
     FuncDecl("f", <<>>, UnitBlock, <<>>),
     FuncDecl("g", <<Param("a", TypeRef("Int")), Param("b", TypeRef("Float"))>>,
              UnitBlock, <<>>),
     FuncDecl("g", <<Param("b", TypeRef("Float")), Param("a", TypeRef("Int"))>>,
              UnitBlock, <<>>),
     FuncDecl("g", <<Param("a", TypeRef("Int")), Param("b", TypeRef("Int"))>>,
              UnitBlock, <<>>),
     VarDecl(FALSE, TypeRef("Int"), "x", IntLit(1))}

DeclSeqs == UNION {[1..n -> Decls] : n \in 0..MaxDecls}

LowerIdle ==
    /\ lw_prog = <<>>
    /\ lw_out = NoProgram
    /\ lw_out2 = NoProgram
    /\ lw_pc = "idle"
    /\ ps_toks = <<>>
    /\ ps_err = "none"
    /\ CatalogIdle

\* symbols_builder.py:42-52
BuildInit ==
    /\ bs_items \in DeclSeqs
    /\ bs_i = 1
    /\ bs_status = "building"
    /\ guarantees = EmptyDict
    /\ typegroups = EmptyDict
    /\ type_guarantees = EmptyDict
    /\ sigs = EmptyDict
    /\ sig_failures = EmptyDict
    /\ sig_attrs = EmptyDict
    /\ funcs = EmptyDict
    /\ impls = EmptyDict
    /\ types = {}
    /\ LowerIdle
    /\ EvalIdle
    /\ RunIdle

BuildNext ==
    \/ BuildGuarantee
    \/ BuildTypeGroup
    \/ BuildSig
    \/ BuildFunc
    \/ BuildRegister
    \/ BuildImpl
    \/ BuildSkip
    \/ BuildReturn

SpecSymbols == BuildInit /\ [][BuildNext]_vars

(***************************************************************************)
(* eval.py, builtin.py: runtime values.  A Python int is IntV(n), a float   *)
(* the rational n/d in lowest terms, None is UnitV and a tuple is TupleV.   *)
(***************************************************************************)
IntV(n) == [t |-> "Int", n |-> n, d |-> 1]

RECURSIVE Gcd(_, _)
Gcd(a, b) == IF b = 0 THEN a ELSE Gcd(b, a % b)

Abs(a) == IF a < 0 THEN 0 - a ELSE a

FloatV(n, d) ==
    LET g == Gcd(Abs(n), Abs(d))
        sg == IF d < 0 THEN 0 - 1 ELSE 1
    IN  [t |-> "Float", n |-> sg * (n \div g), d |-> sg * (d \div g)]

UnitV == [t |-> "Unit"]

TupleV(q) == [t |-> "Tuple", items |-> q]

\* builtin.py:11-12
ordering(tag) == TupleV(<<"Ordering", tag>>)

IsNum(v) == v.t \in {"Int", "Float"}

\* the outcome of a Python expression: a value or the exception raised
PyOk(v) == [st |-> "ok", v |-> v]

PyRaise(e) == [st |-> e, v |-> UnitV]

\* Python a + b, a - b, a * b, a / b on runtime values
py_arith(op, a, b) ==
    IF IsNum(a) /\ IsNum(b)
    THEN LET ints == a.t = "Int" /\ b.t = "Int"
         IN  CASE op = "+" -> PyOk(IF ints THEN IntV(a.n + b.n)
                                   ELSE FloatV(a.n * b.d + b.n * a.d, a.d * b.d))
               [] op = "-" -> PyOk(IF ints THEN IntV(a.n - b.n)
                                   ELSE FloatV(a.n * b.d - b.n * a.d, a.d * b.d))
               [] op = "*" -> PyOk(IF ints THEN IntV(a.n * b.n)
                                   ELSE FloatV(a.n * b.n, a.d * b.d))
               [] op = "/" -> IF b.n = 0 THEN PyRaise("ZeroDivisionError")
                              ELSE PyOk(FloatV(a.n * b.d, a.d * b.n))
    ELSE IF op = "+" /\ a.t = "Tuple" /\ b.t = "Tuple"
    THEN PyOk(TupleV(a.items \o b.items))
    ELSE PyRaise("TypeError")

\* Python -a
py_neg(a) ==
    IF IsNum(a) THEN PyOk([a EXCEPT !.n = 0 - a.n]) ELSE PyRaise("TypeError")

\* Python float(a)
py_float(a) ==
    IF IsNum(a) THEN PyOk(FloatV(a.n, a.d)) ELSE PyRaise("TypeError")

\* builtin.py:38-39; the first operand is a number (eval.py:231 has typed it)
py_cmp(a, b) ==
    IF IsNum(a) /\ IsNum(b)
    THEN PyOk(IF a.n * b.d > b.n * a.d THEN ordering("Left")
              ELSE IF a.n * b.d = b.n * a.d THEN ordering("Flat")
              ELSE ordering("Right"))
    ELSE PyRaise("TypeError")

\* what Python's print writes for x: one line, str(x)
py_str(x) ==
    CASE x.t = "Int" -> [s |-> "int", n |-> x.n, d |-> 1]
      [] x.t = "Float" -> [s |-> "float", n |-> x.n, d |-> x.d]
      [] x.t = "Unit" -> [s |-> "None", n |-> 0, d |-> 1]
      [] x.t = "Tuple" -> [s |-> "tuple", n |-> Len(x.items), d |-> 1]

\* the result of evaluating an expression: the value or the exception, and
\* the output sink after it
Ok(v, o) == [st |-> "ok", v |-> v, fid |-> "none", out |-> o]

Raise(e, o) == [st |-> e, v |-> UnitV, fid |-> "none", out |-> o]

\* runtime_failures.py:4-6
RaisedFailure(f, o) == [st |-> "RaisedFailure", v |-> UnitV, fid |-> f, out |-> o]

\* eval.py:45-47
ReturnSignal(v, o) == [st |-> "ReturnSignal", v |-> v, fid |-> "none", out |-> o]

\* the number of parameters of each lambda of builtin.py:14-47
BuiltinArity(id) ==
    IF id \in {"core.int.neg", "core.float.neg", "core.int.toFloat",
               "core.int.print", "core.float.print", "core.string.print",
               "core.ordering.print"}
    THEN 1 ELSE 2

FromPy(r, o) == IF r.st = "ok" THEN Ok(r.v, o) ELSE Raise(r.st, o)

\* builtin.py:52-57 with the lambdas of builtin.py:14-47
call_builtin(id, args, o) ==
    IF id \notin BUILTINS THEN Raise("KeyError", o)
    ELSE IF Len(args) # BuiltinArity(id) THEN Raise("TypeError", o)
    ELSE CASE id \in {"core.int.add", "core.float.add"} ->
                FromPy(py_arith("+", args[1], args[2]), o)
           [] id \in {"core.int.sub", "core.float.sub"} ->
                FromPy(py_arith("-", args[1], args[2]), o)
           [] id \in {"core.int.mul", "core.float.mul"} ->
                FromPy(py_arith("*", args[1], args[2]), o)
           [] id = "core.float.div" ->
                FromPy(py_arith("/", args[1], args[2]), o)
           [] id \in {"core.int.neg", "core.float.neg"} ->
                FromPy(py_neg(args[1]), o)
           [] id = "core.int.toFloat" ->
                FromPy(py_float(args[1]), o)
           [] id \in {"core.int.print", "core.float.print", "core.string.print"} ->
                Ok(UnitV, Append(o, py_str(args[1])))
           [] id = "core.ordering.print" ->
                IF args[1].t # "Tuple" THEN Raise("TypeError", o)
                ELSE IF Len(args[1].items) < 2 THEN Raise("IndexError", o)
                ELSE Ok(UnitV, Append(o, [s |-> args[1].items[2], n |-> 0, d |-> 1]))
           [] id \in {"core.int.cmp", "core.float.cmp"} ->
                FromPy(py_cmp(args[1], args[2]), o)

(***************************************************************************)
(* eval.py: expressions                                                    *)
(***************************************************************************)
\* eval.py:39-43
Cell(v, m) == [value |-> v, mutable |-> m]

\* outer=None: no name is found in it
NoOuter == EmptyDict

\* eval.py:151-162; a tuple (an Ordering) has no runtime type
runtime_type(v) ==
    IF v.t \in {"Int", "Float", "Unit"} THEN PyOk(v.t) ELSE PyRaise("EvalError")

\* the dynamic failure a builtin raises when it reaches the host in this
\* run, "none" when it runs normally
host_failure(id) == IF id \in DOMAIN host THEN host[id] ELSE "none"

\* eval.py:239-242: the translation of a builtin's ZeroDivisionError
divide_by_zero(o) ==
    IF "DivideByZero" \in DOMAIN FailureIdMembers
    THEN RaisedFailure(FailureIdMembers["DivideByZero"], o)
    ELSE Raise("AttributeError", o)

\* Self taken from the runtime type of the last argument
self_type_last(vals) == runtime_type(vals[Len(vals)])

\* eval.py:231: Self is the runtime type of the first argument
self_type(vals) == runtime_type(vals[1])

RECURSIVE eval_expr(_, _, _, _)
RECURSIVE eval_args(_, _, _, _, _, _)
RECURSIVE eval_call(_, _, _, _)
RECURSIVE eval_user_func(_, _, _, _)
RECURSIVE eval_block(_, _, _, _, _)

\* the arguments evaluated from the last to the first
RECURSIVE eval_args_rtl(_, _, _, _, _, _)
eval_args_rtl(args, j, en, outer, o, acc) ==
    IF j > Len(args) THEN [res |-> Ok(UnitV, o), vals |-> acc]
    ELSE LET r == eval_expr(args[Len(args) + 1 - j].expr, en, outer, o)
         IN  IF r.st # "ok" THEN [res |-> r, vals |-> acc]
             ELSE eval_args_rtl(args, j + 1, en, outer, r.out, <<r.v>> \o acc)

\* eval.py:128-149
eval_expr(expr, en, outer, o) ==
    CASE expr.k = "IntLit" -> Ok(IntV(expr.value), o)
      [] expr.k = "FloatLit" -> Ok(FloatV(expr.value, 1), o)
      [] expr.k = "IdentExpr" ->
           IF expr.name \in DOMAIN en THEN Ok(en[expr.name].value, o)
           ELSE IF expr.name \in DOMAIN outer THEN Ok(outer[expr.name].value, o)
           ELSE Raise("EvalError", o)
      [] expr.k = "BinaryExpr" -> Raise("TypecheckError", o)
      [] expr.k = "CallExpr" -> eval_call(expr, en, outer, o)
      [] OTHER -> Raise("EvalError", o)

\* eval.py:208: the list comprehension over expr.args, from args[j] on
eval_args(args, j, en, outer, o, acc) ==
    IF j > Len(args) THEN [res |-> Ok(UnitV, o), vals |-> acc]
    ELSE LET r == eval_expr(args[j].expr, en, outer, o)
         IN  IF r.st # "ok" THEN [res |-> r, vals |-> acc]
             ELSE eval_args(args, j + 1, en, outer, r.out, Append(acc, r.v))

\* eval.py:202-244
eval_call(expr, en, outer, o) ==
    IF expr.arg_style # "pos" THEN Raise("EvalError", o)
    ELSE
    LET a == eval_args(expr.args, 1, en, outer, o, <<>>)
        o1 == a.res.out
    IN  IF a.res.st # "ok" THEN a.res
        ELSE IF expr.callee \in DOMAIN funcs
        THEN eval_user_func(expr.callee, a.vals, en, o1)
        ELSE IF expr.callee \in DOMAIN sigs
        THEN LET sig == sigs[expr.callee]
                 req_guars == SelectSeq(sig.requires,
                                        LAMBDA r : r.k = "RequireGuarantees")
             IN  IF Len(req_guars) # 1 THEN Raise("EvalError", o1)
                 ELSE IF Len(a.vals) = 0 THEN Raise("EvalError", o1)
                 ELSE LET t0 == self_type(a.vals)
                          key == <<t0.v, req_guars[1].guarantee_name, sig.name>>
                      IN  IF t0.st # "ok" THEN Raise("EvalError", o1)
                          ELSE IF key \notin DOMAIN impls THEN Raise("EvalError", o1)
                          ELSE IF host_failure(impls[key]) # "none"
                          THEN RaisedFailure(host_failure(impls[key]), o1)
                          ELSE LET r == call_builtin(impls[key], a.vals, o1)
                               IN  IF r.st = "ZeroDivisionError"
                                   THEN divide_by_zero(r.out)
                                   ELSE r
        ELSE Raise("EvalError", o1)

\* eval.py:164-199
eval_user_func(fname, args, caller_env, o) ==
    IF fname \notin DOMAIN funcs THEN Raise("EvalError", o)
    ELSE
    LET fdecl == funcs[fname]
        np == Len(fdecl.params)
        \* the last parameter of a name wins, as in the loop of eval.py:186-187
        pos(n) == CHOOSE j \in 1..np :
                      /\ fdecl.params[j].name = n
                      /\ \A h \in (j + 1)..np : fdecl.params[h].name # n
        local == [n \in {fdecl.params[j].name : j \in 1..np} |->
                      Cell(args[pos(n)], FALSE)]
    IN  IF Len(args) # np THEN Raise("EvalError", o)
        ELSE LET r == eval_block(fdecl.body, 1, local, caller_env, o)
             IN  CASE r.st = "ok" -> Ok(UnitV, r.out)
                   [] r.st = "ReturnSignal" -> Ok(r.v, r.out)
                   [] r.st = "RaisedFailure" ->
                        IF "handled" \in GetSet(sig_attrs, fname)
                        THEN Ok(UnitV, r.out)
                        ELSE r
                   [] OTHER -> r

\* eval.py:315-328: the loop over block.stmts, from stmts[j] on
eval_block(block, j, en, outer, o) ==
    IF j > Len(block.stmts) THEN Ok(UnitV, o)
    ELSE LET st == block.stmts[j]
         IN  CASE st.k = "ReturnStmt" ->
                    LET r == eval_expr(st.expr, en, outer, o)
                    IN  IF r.st = "ok" THEN ReturnSignal(r.v, r.out) ELSE r
               [] st.k = "ExprStmt" ->
                    LET r == eval_expr(st.expr, en, outer, o)
                    IN  IF r.st = "ok"
                        THEN eval_block(block, j + 1, en, outer, r.out)
                        ELSE r
               [] OTHER -> Raise("EvalError", o)

(***************************************************************************)
(* eval.py: eval_program, one action for each kind of top-level item       *)
(***************************************************************************)
\* eval.py:62-67: j, the position after the catches that follow the try at i
group_end(items, i) ==
    CHOOSE j \in (i + 1)..(Len(items) + 1) :
        /\ \A h \in (i + 1)..(j - 1) : items[h].k = "CatchStmt"
        /\ j = Len(items) + 1 \/ items[j].k # "CatchStmt"

\* the last catch of the group that names fid
select_catch_last(items, i, j, fid) ==
    LET m == {h \in (i + 1)..(j - 1) : items[h].failure_name = fid}
    IN  IF m = {} THEN 0 ELSE CHOOSE h \in m : \A g \in m : g <= h

\* eval.py:79-82,90: the catch of the group that handles fid, the first that
\* names it; 0 when none does (handled stays False)
select_catch(items, i, j, fid) ==
    LET m == {h \in (i + 1)..(j - 1) : items[h].failure_name = fid}
    IN  IF m = {} THEN 0 ELSE CHOOSE h \in m : \A g \in m : h <= g

\* a handler's failure is swallowed when any catch of the group names it
handler_swallows_group(items, i, j, c, fid) ==
    \E h \in (i + 1)..(j - 1) : items[h].failure_name = fid

\* a handler's failure is never swallowed
handler_swallows_never(items, i, j, c, fid) == FALSE

\* eval.py:87-89: the failure fid raised by the handler of catch c is
\* swallowed, not re-raised
handler_swallows(items, i, j, c, fid) == fid = items[c].failure_name

NoOutcome == [st |-> "none", fid |-> "none"]

Outcome(r) == [st |-> r.st, fid |-> r.fid]

\* eval.py:60-96: the try group at i.  res is what the group does (ok: the
\* loop goes on at j), try and h are the outcomes of the try expression and
\* of the handler, ran the catches whose handler was evaluated.
\* the try expression is evaluated before the catches are looked for
try_group_eager(items, i, en, o) ==
    LET j == group_end(items, i)
        r == eval_expr(items[i].expr, en, NoOuter, o)
    IN  [res |-> IF j = i + 1 THEN Raise("EvalError", r.out) ELSE r,
         j |-> j, try |-> Outcome(r), ran |-> <<>>, h |-> NoOutcome]

try_group(items, i, en, o) ==
    LET j == group_end(items, i)
        r == eval_expr(items[i].expr, en, NoOuter, o)
        c == select_catch(items, i, j, r.fid)
        h == eval_expr(items[c].expr, en, NoOuter, r.out)
    IN  IF j = i + 1
        THEN [res |-> Raise("EvalError", o), j |-> j, try |-> NoOutcome,
              ran |-> <<>>, h |-> NoOutcome]
        ELSE IF r.st # "RaisedFailure" \/ c = 0
        THEN [res |-> r, j |-> j, try |-> Outcome(r), ran |-> <<>>,
              h |-> NoOutcome]
        ELSE [res |-> IF h.st = "RaisedFailure"
                         /\ handler_swallows(items, i, j, c, h.fid)
                      THEN Ok(UnitV, h.out)
                      ELSE h,
              j |-> j, try |-> Outcome(r), ran |-> <<c>>, h |-> Outcome(h)]

\* VarDecl binds the name before its right-hand side is evaluated
var_decl_early(item, en, o) ==
    LET en1 == Put(en, item.name, Cell(UnitV, item.mutable))
        r == eval_expr(item.expr, en1, NoOuter, o)
    IN  [res |-> r,
         env |-> IF r.st = "ok" THEN Put(en, item.name, Cell(r.v, item.mutable))
                 ELSE en1]

\* eval.py:102-104
var_decl(item, en, o) ==
    LET r == eval_expr(item.expr, en, NoOuter, o)
    IN  [res |-> r,
         env |-> IF r.st = "ok" THEN Put(en, item.name, Cell(r.v, item.mutable))
                 ELSE en]

\* AssignStmt without the test of cell.mutable
assign_stmt_unchecked(item, en, o) ==
    IF item.name \notin DOMAIN en THEN [res |-> Raise("EvalError", o), env |-> en]
    ELSE LET r == eval_expr(item.expr, en, NoOuter, o)
         IN  [res |-> r,
              env |-> IF r.st = "ok"
                      THEN Put(en, item.name, Cell(r.v, en[item.name].mutable))
                      ELSE en]

\* eval.py:108-115
assign_stmt(item, en, o) ==
    IF item.name \notin DOMAIN en THEN [res |-> Raise("EvalError", o), env |-> en]
    ELSE IF ~en[item.name].mutable THEN [res |-> Raise("EvalError", o), env |-> en]
    ELSE LET r == eval_expr(item.expr, en, NoOuter, o)
         IN  [res |-> r,
              env |-> IF r.st = "ok"
                      THEN Put(en, item.name, Cell(r.v, en[item.name].mutable))
                      ELSE en]

EvItem == ev_prog[ev_i]

\* eval.py:56-58: the loop is at an item of the given kinds
\* the loop goes on whatever left the item before
EvAt_any(kinds) ==
    /\ ev_i \in 1..Len(ev_prog)
    /\ EvItem.k \in kinds

EvAt(kinds) ==
    /\ ev_status = "running"
    /\ ev_i \in 1..Len(ev_prog)
    /\ EvItem.k \in kinds

\* the item at ev_i is done, and its output may or may not be kept
EvDone_racy(r, n) ==
    /\ out' \in {r.out, out}
    /\ IF r.st = "ok"
       THEN ev_i' = n /\ ev_status' = "running" /\ ev_fid' = "none"
       ELSE ev_i' = ev_i /\ ev_status' = r.st /\ ev_fid' = r.fid

\* the item at ev_i is done: on with the loop at n, or the exception leaves
\* eval_program
EvDone(r, n) ==
    /\ out' = r.out
    /\ IF r.st = "ok"
       THEN ev_i' = n /\ ev_status' = "running" /\ ev_fid' = "none"
       ELSE ev_i' = ev_i /\ ev_status' = r.st /\ ev_fid' = r.fid

Step(kind) == [NoStep EXCEPT !.kind = kind, !.at = ev_i, !.env0 = env, !.out0 = out]

\* eval.py:60-96
EvalTryGroup ==
    /\ EvAt({"TryStmt"})
    /\ LET g == try_group(ev_prog, ev_i, env, out)
       IN  /\ EvDone(g.res, g.j)
           /\ last' = [Step("TryStmt") EXCEPT !.try = g.try, !.ran = g.ran, !.h = g.h]
    /\ UNCHANGED <<ev_prog, env, host, lvars, bvars, rvars>>

\* eval.py:99-100
EvalStrayCatch ==
    /\ EvAt({"CatchStmt"})
    /\ EvDone(Raise("EvalError", out), ev_i)
    /\ last' = Step("CatchStmt")
    /\ UNCHANGED <<ev_prog, env, host, lvars, bvars, rvars>>

\* eval.py:102-106
EvalVarDecl ==
    /\ EvAt({"VarDecl"})
    /\ LET d == var_decl(EvItem, env, out)
       IN  EvDone(d.res, ev_i + 1) /\ env' = d.env
    /\ last' = Step("VarDecl")
    /\ UNCHANGED <<ev_prog, host, lvars, bvars, rvars>>

\* eval.py:108-117
EvalAssign ==
    /\ EvAt({"AssignStmt"})
    /\ LET d == assign_stmt(EvItem, env, out)
       IN  EvDone(d.res, ev_i + 1) /\ env' = d.env
    /\ last' = Step("AssignStmt")
    /\ UNCHANGED <<ev_prog, host, lvars, bvars, rvars>>

\* eval.py:119-122
EvalExprStmt ==
    /\ EvAt({"ExprStmt"})
    /\ EvDone(eval_expr(EvItem.expr, env, NoOuter, out), ev_i + 1)
    /\ last' = Step("ExprStmt")
    /\ UNCHANGED <<ev_prog, env, host, lvars, bvars, rvars>>

\* eval.py:124: declarations are passed over
EvalSkip ==
    /\ ev_status = "running"
    /\ ev_i \in 1..Len(ev_prog)
    /\ EvItem.k \notin {"TryStmt", "CatchStmt", "VarDecl", "AssignStmt", "ExprStmt"}
    /\ EvDone(Ok(UnitV, out), ev_i + 1)
    /\ last' = Step(EvItem.k)
    /\ UNCHANGED <<ev_prog, env, host, lvars, bvars, rvars>>

\* eval.py:56,126
EvalReturn ==
    /\ ev_status = "running"
    /\ ev_i = Len(ev_prog) + 1
    /\ ev_status' = "returned"
    /\ UNCHANGED <<ev_prog, ev_i, env, out, ev_fid, host, last, lvars, bvars, rvars>>

\* how eval_program ends: returned, or the exception that leaves it
Ended(r, en) == [st |-> r.st, fid |-> r.fid, env |-> en, out |-> r.out]

\* eval.py:49-126: eval_program as one function of the items, from the
\* item at i on, in the environment en after the output o
RECURSIVE eval_program(_, _, _, _)
eval_program(items, i, en, o) ==
    IF i > Len(items)
    THEN [st |-> "returned", fid |-> "none", env |-> en, out |-> o]
    ELSE LET item == items[i]
         IN  CASE item.k = "TryStmt" ->
                    LET g == try_group(items, i, en, o)
                    IN  IF g.res.st = "ok"
                        THEN eval_program(items, g.j, en, g.res.out)
                        ELSE Ended(g.res, en)
               [] item.k = "CatchStmt" -> Ended(Raise("EvalError", o), en)
               [] item.k = "VarDecl" ->
                    LET d == var_decl(item, en, o)
                    IN  IF d.res.st = "ok"
                        THEN eval_program(items, i + 1, d.env, d.res.out)
                        ELSE Ended(d.res, d.env)
               [] item.k = "AssignStmt" ->
                    LET d == assign_stmt(item, en, o)
                    IN  IF d.res.st = "ok"
                        THEN eval_program(items, i + 1, d.env, d.res.out)
                        ELSE Ended(d.res, d.env)
               [] item.k = "ExprStmt" ->
                    LET r == eval_expr(item.expr, en, NoOuter, o)
                    IN  IF r.st = "ok"
                        THEN eval_program(items, i + 1, en, r.out)
                        ELSE Ended(r, en)
               [] OTHER -> eval_program(items, i + 1, en, o)

(***************************************************************************)
(* The runs of eval_program: the Symbols of the core catalog and of one    *)
(* user func, the programs of at most MaxItems items, the hosts            *)
(***************************************************************************)
MaxItems == 3

DictOf(pairs) ==
    [key \in {pr[1] : pr \in pairs} |-> (CHOOSE pr \in pairs : pr[1] = key)[2]]

Call1(callee, a) == CallExpr(callee, <<PosArg(a)>>, "pos")

Call2(callee, a, b) == CallExpr(callee, <<PosArg(a), PosArg(b)>>, "pos")

\* core/math.py, core/io.py: the sigs of the catalog, and the sig of show
CoreSigs ==
    DictOf({
      <<"print", SigDecl("print", <<TypeRef("T")>>, TypeRef("Unit"),
                         <<RequireGuarantees("T", "Printable")>>, TypeRef("Never"), <<>>)>>,
      <<"add", SigDecl("add", <<TypeRef("T"), TypeRef("T")>>, TypeRef("T"),
                       <<RequireGuarantees("T", "Addable")>>, TypeRef("Never"), <<>>)>>,
      <<"div", SigDecl("div", <<TypeRef("T"), TypeRef("T")>>, TypeRef("Float"),
                       <<RequireGuarantees("T", "Divisible")>>, TypeRef("Never"), <<>>)>>,
      <<"show", SigDecl("show", <<TypeRef("Int")>>, TypeRef("Int"), <<>>,
                        TypeRef("Never"), <<>>)>>})

\* core/math.py, core/io.py: the impls of the catalog
CoreImpls ==
    DictOf({<<<<"Int", "Printable", "print">>, "core.int.print">>,
            <<<<"Float", "Printable", "print">>, "core.float.print">>,
            <<<<"Int", "Addable", "add">>, "core.int.add">>,
            <<<<"Float", "Addable", "add">>, "core.float.add">>,
            <<<<"Int", "Divisible", "div">>, "core.float.div">>,
            <<<<"Float", "Divisible", "div">>, "core.float.div">>})

\* core/math.py, core/io.py: the guarantees of the catalog
CoreGuarantees ==
    DictOf({
      <<"Printable", GuaranteeDecl("Printable",
           <<FuncSig("print", <<Param("self", TypeRef("Self"))>>, TypeRef("Unit"))>>)>>,
      <<"Addable", GuaranteeDecl("Addable",
           <<FuncSig("add", <<Param("self", TypeRef("Self")),
                              Param("other", TypeRef("Self"))>>, TypeRef("Self"))>>)>>,
      <<"Divisible", GuaranteeDecl("Divisible",
           <<FuncSig("div", <<Param("self", TypeRef("Self")),
                              Param("other", TypeRef("Self"))>>, TypeRef("Float"))>>)>>})

\* func show(a: Int) { print(a)  return a }
ShowDecl ==
    FuncDecl("show", <<Param("a", TypeRef("Int"))>>,
             BlockStmt(<<ExprStmt(Call1("print", IdentExpr("a"))),
                         ReturnStmt(IdentExpr("a"))>>), <<>>)

UserFuncs == DictOf({<<"show", ShowDecl>>})

\* eval.py:51: syms, the Symbols of the catalog and the user funcs
EvalSymbols ==
    /\ bs_items = <<>>
    /\ bs_i = 1
    /\ bs_status = "returned"
    /\ guarantees = CoreGuarantees
    /\ typegroups = EmptyDict
    /\ type_guarantees =
           [t \in {"Int", "Float"} |-> {"Printable", "Addable", "Divisible"}]
    /\ sigs = CoreSigs
    /\ sig_failures = [n \in DOMAIN CoreSigs |-> {}]
    /\ sig_attrs = [n \in DOMAIN CoreSigs |-> {}]
    /\ funcs = UserFuncs
    /\ impls = CoreImpls
    /\ types = {"Int", "Float", "Unit"}

PrintInt == Call1("print", IntLit(1))

PrintFloat == Call1("print", FloatLit(2))

PrintDiv == Call1("print", Call2("div", FloatLit(1), FloatLit(0)))

PrintSum == Call1("print", Call2("add", Call1("show", IntLit(1)), Call1("show", FloatLit(2))))

\* the top-level items of the programs run
EvalItems ==
    {TryStmt(PrintInt), TryStmt(PrintFloat), TryStmt(PrintDiv),
     CatchStmt("PrintErr", PrintInt), CatchStmt("PrintErr", PrintFloat),
     CatchStmt("IOErr", PrintInt),
     CatchStmt("DivideByZero", Call1("print", IntLit(999))),
     ExprStmt(PrintSum),
     VarDecl(FALSE, TypeRef("Int"), "x", Call1("show", IntLit(1))),
     VarDecl(TRUE, TypeRef("Int"), "x", Call2("add", IdentExpr("x"), IntLit(1))),
     AssignStmt("x", Call1("show", FloatLit(2))),
     ShowDecl}

EvalPrograms == UNION {[1..n -> EvalItems] : n \in 1..MaxItems}

\* the hosts: printing an int may fail with PrintErr, printing a float
\* with IOErr
Hosts ==
    {hf \in [{"core.int.print", "core.float.print"} -> {"none", "PrintErr", "IOErr"}] :
        hf["core.int.print"] # "IOErr" /\ hf["core.float.print"] # "PrintErr"}

\* eval.py:51-54
EvalInit ==
    /\ ev_prog \in EvalPrograms
    /\ ev_i = 1
    /\ env = EmptyDict
    /\ out = <<>>
    /\ ev_status = "running"
    /\ ev_fid = "none"
    /\ host \in Hosts
    /\ last = NoStep
    /\ EvalSymbols
    /\ LowerIdle
    /\ RunIdle

EvalNext ==
    \/ EvalTryGroup
    \/ EvalStrayCatch
    \/ EvalVarDecl
    \/ EvalAssign
    \/ EvalExprStmt
    \/ EvalSkip
    \/ EvalReturn

SpecEval == EvalInit /\ [][EvalNext]_vars

(***************************************************************************)
(* The runs of eval_program over calls: sigs with and without the handled  *)
(* attribute, with no, one and a missing implementation, and cmp           *)
(***************************************************************************)
\* func quiet(a: T) { print(a) }, declared with the attribute handled
QuietDecl ==
    FuncDecl("quiet", <<Param("a", TypeRef("T"))>>,
             BlockStmt(<<ExprStmt(Call1("print", IdentExpr("a")))>>), <<"handled">>)

\* func peek(b: Int) { return u }: u is no parameter of peek
PeekDecl ==
    FuncDecl("peek", <<Param("b", TypeRef("Int"))>>,
             BlockStmt(<<ReturnStmt(IdentExpr("u"))>>), <<>>)

\* func wrap(u: Float) { return peek(0) }: a user func called from a body
WrapDecl ==
    FuncDecl("wrap", <<Param("u", TypeRef("Float"))>>,
             BlockStmt(<<ReturnStmt(Call1("peek", IntLit(0)))>>), <<>>)

\* core/math.py:153-161 toFloat, core/operator.py:166-197 cmp, and the sigs
\* quiet and log that carry handled
CallSigs ==
    DictOf({
      <<"toFloat", SigDecl("toFloat", <<TypeRef("Int")>>, TypeRef("Float"), <<>>,
                           TypeRef("Never"), <<>>)>>,
      <<"cmp", SigDecl("cmp", <<TypeRef("T"), TypeRef("T")>>, TypeRef("Ordering"),
                       <<RequireGuarantees("T", "Ord")>>, TypeRef("Never"), <<>>)>>,
      <<"quiet", SigDecl("quiet", <<TypeRef("T")>>, TypeRef("Unit"),
                         <<RequireGuarantees("T", "Printable")>>, TypeRef("PrintErr"),
                         <<"handled">>)>>,
      <<"log", SigDecl("log", <<TypeRef("T")>>, TypeRef("Unit"),
                       <<RequireGuarantees("T", "Printable")>>, TypeRef("PrintErr"),
                       <<"handled">>)>>})

\* core/operator.py:180-190, core/io.py:41-46, and log implemented for Int
CallImpls ==
    DictOf({<<<<"Int", "Ord", "cmp">>, "core.int.cmp">>,
            <<<<"Float", "Ord", "cmp">>, "core.float.cmp">>,
            <<<<"Ordering", "Printable", "print">>, "core.ordering.print">>,
            <<<<"Int", "Printable", "log">>, "core.int.print">>})

\* eval.py:51: syms, the Symbols of the catalog, of show and of quiet
CallSymbols ==
    /\ bs_items = <<>>
    /\ bs_i = 1
    /\ bs_status = "returned"
    /\ guarantees = CoreGuarantees
    /\ typegroups = EmptyDict
    /\ type_guarantees =
           [t \in {"Int", "Float"} |-> {"Printable", "Addable", "Divisible"}]
    /\ sigs = CoreSigs @@ CallSigs
    /\ sig_failures = [n \in DOMAIN CoreSigs |-> {}]
                          @@ [n \in DOMAIN CallSigs |->
                                 IF n \in {"quiet", "log"} THEN {"PrintErr"} ELSE {}]
    /\ sig_attrs = [n \in DOMAIN CoreSigs |-> {}]
                       @@ [n \in DOMAIN CallSigs |-> SeqToSet(CallSigs[n].attrs)]
    /\ funcs = UserFuncs @@ DictOf({<<"quiet", QuietDecl>>, <<"peek", PeekDecl>>,
                                    <<"wrap", WrapDecl>>})
    /\ impls = CoreImpls @@ CallImpls
    /\ types = {"Int", "Float", "Unit", "Ordering"}

QuietInt == Call1("quiet", IntLit(1))

LogInt == Call1("log", IntLit(1))

QuietShow == Call1("quiet", Call1("show", FloatLit(2)))

ShowInt == Call1("show", IntLit(1))

DivHalf == Call2("div", FloatLit(1), FloatLit(2))

AddIntU == Call2("add", IntLit(1), IdentExpr("u"))

PrintU == Call1("print", IdentExpr("u"))

PrintCmp == Call1("print", Call2("cmp", IntLit(1), IntLit(2)))

WrapPeek == Call1("wrap", FloatLit(2))

\* the top-level items of the programs run
CallItems ==
    {VarDecl(TRUE, TypeRef("Unit"), "u", QuietInt),
     VarDecl(TRUE, TypeRef("Unit"), "u", LogInt),
     VarDecl(TRUE, TypeRef("Unit"), "u", QuietShow),
     VarDecl(TRUE, TypeRef("Int"), "u", ShowInt),
     VarDecl(TRUE, TypeRef("Float"), "v", DivHalf),
     VarDecl(TRUE, TypeRef("Float"), "v", Call1("toFloat", IntLit(1))),
     VarDecl(TRUE, TypeRef("Int"), "v", AddIntU),
     VarDecl(TRUE, TypeRef("Int"), "v", WrapPeek),
     ExprStmt(PrintU),
     ExprStmt(PrintCmp),
     TryStmt(LogInt),
     CatchStmt("PrintErr", PrintFloat),
     AssignStmt("u", Call1("quiet", FloatLit(2))),
     QuietDecl}

CallPrograms == UNION {[1..n -> CallItems] : n \in 1..MaxItems}

\* eval.py:51-54
CallsInit ==
    /\ ev_prog \in CallPrograms
    /\ ev_i = 1
    /\ env = EmptyDict
    /\ out = <<>>
    /\ ev_status = "running"
    /\ ev_fid = "none"
    /\ host \in Hosts
    /\ last = NoStep
    /\ CallSymbols
    /\ LowerIdle
    /\ RunIdle

SpecCalls == CallsInit /\ [][EvalNext]_vars

(***************************************************************************)
(* typecheck.py                                                            *)
(***************************************************************************)
\* typecheck.py:30-43
CORE_TYPES ==
    {"Int", "Float", "Bool", "String", "Unit", "Never", "IOErr", "EncodingErr",
     "Left", "Right", "Flat", "Slope"}

\* core_guarantees.py: CORE_GUARANTEES_DECLS
CORE_GUARANTEES_DECLS ==
    DictOf({<<"Printable", GuaranteeDecl("Printable",
        <<FuncSig("print", <<Param("self", TypeRef("Self"))>>, TypeRef("Unit"))>>)>>})

\* typecheck.py:82-90: the locals of build_symbols before its loop
TcSymbols0 ==
    [guarantees |-> CORE_GUARANTEES_DECLS, typegroups |-> EmptyDict,
     type_guarantees |-> EmptyDict, funcs |-> EmptyDict, impls |-> EmptyDict,
     types |-> CORE_TYPES]

TcRaise(e, sy) == [st |-> e, syms |-> sy]

\* typecheck.py:81-178: build_symbols, the loop over prog.items from
\* items[i] on, then _validate_catalog (typecheck.py:249-272)
RECURSIVE tc_build_symbols(_, _, _)
tc_build_symbols(items, i, sy) ==
    IF i > Len(items)
    THEN TcRaise(IF validate_catalog(sy.type_guarantees, sy.guarantees, sy.impls)
                 THEN "ok" ELSE "TypecheckError", sy)
    ELSE LET item == items[i]
         IN  CASE item.k = "GuaranteeDecl" ->
                    IF item.name \in DOMAIN sy.guarantees
                    THEN TcRaise("TypecheckError", sy)
                    ELSE tc_build_symbols(items, i + 1, [sy EXCEPT !.guarantees = Put(@, item.name, item)])
               [] item.k = "TypeGroupDecl" ->
                    IF item.name \in DOMAIN sy.typegroups
                    THEN TcRaise("TypecheckError", sy)
                    ELSE LET members == {item.members[j].name :
                                             j \in 1..Len(item.members)}
                         IN  tc_build_symbols(items, i + 1, [sy EXCEPT
                                     !.typegroups = Put(@, item.name, members),
                                     !.types = @ \cup {item.name} \cup members])
               [] item.k = "FuncDecl" ->
                    IF item.name \in DOMAIN sy.funcs
                    THEN TcRaise("TypecheckError", sy)
                    ELSE tc_build_symbols(items, i + 1, [sy EXCEPT !.funcs = Put(@, item.name, item)])
               [] item.k = "RegisterDecl" ->
                    LET t == item.typ.name
                        g == item.guarantee
                    IN  IF g \notin DOMAIN sy.guarantees
                        THEN TcRaise("TypecheckError", sy)
                        ELSE IF Len(sy.guarantees[g].methods) > 0
                        THEN TcRaise("TypecheckError", sy)
                        ELSE IF g \in GetSet(sy.type_guarantees, t)
                        THEN TcRaise("TypecheckError", sy)
                        ELSE tc_build_symbols(items, i + 1, [sy EXCEPT
                                     !.type_guarantees =
                                         Put(@, t, GetSet(@, t) \cup {g}),
                                     !.types = @ \cup {t}])
               [] item.k = "ImplDecl" ->
                    LET t == item.typ.name
                        g == item.guarantee
                        r == impl_methods(item, 1, t, sy.impls)
                        sy1 == [sy EXCEPT
                                  !.type_guarantees = Put(@, t, GetSet(@, t) \cup {g}),
                                  !.impls = r.impls]
                    IN  IF r.raised THEN TcRaise("TypecheckError", sy1)
                        ELSE tc_build_symbols(items, i + 1, [sy1 EXCEPT !.types = @ \cup {t}])
               [] OTHER -> tc_build_symbols(items, i + 1, sy)

\* typecheck.py:184-227: the exception bind_args raises, or "ok"
bind_args(call, func) ==
    LET np == Len(func.params)
        pnames == {func.params[j].name : j \in 1..np}
        na == Len(call.args)
    IN  IF call.arg_style = "pos"
        THEN IF na # np THEN "BindError" ELSE "ok"
        ELSE IF \/ \E j \in 1..na : call.args[j].name \notin pnames
                \/ \E j, h \in 1..na : j # h /\ call.args[j].name = call.args[h].name
                \/ \E n \in pnames : \A j \in 1..na : call.args[j].name # n
        THEN "BindError" ELSE "ok"

TcType(t) == [st |-> "ok", t |-> t]

TcFail(e) == [st |-> e, t |-> "None"]

\* typecheck.py:401-474: func is a FuncDecl, which has no field ret
\* (ast.py:140-148), so reading func.ret raises AttributeError
type_call(call, expected, sy) ==
    IF call.callee \notin DOMAIN sy.funcs THEN TcFail("TypecheckError")
    ELSE IF bind_args(call, sy.funcs[call.callee]) # "ok" THEN TcFail("BindError")
    ELSE IF "ret" \in DOMAIN sy.funcs[call.callee]
    THEN TcType(sy.funcs[call.callee].ret.name)
    ELSE TcFail("AttributeError")

\* the env of typecheck_program, a dict in insertion order
TcHas(en, n) == \E j \in 1..Len(en) : en[j].name = n

TcGet(en, n) == en[CHOOSE j \in 1..Len(en) : en[j].name = n].typ

TcSet(en, n, t) ==
    IF TcHas(en, n)
    THEN [j \in 1..Len(en) |-> IF en[j].name = n THEN [name |-> n, typ |-> t] ELSE en[j]]
    ELSE Append(en, [name |-> n, typ |-> t])

\* typecheck.py:373-398; expected "None" stands for None
type_expr(expr, expected, en, sy) ==
    CASE expr.k = "IntLit" ->
           IF expected # "None" /\ expected # "Int"
           THEN TcFail("TypecheckError") ELSE TcType("Int")
      [] expr.k = "FloatLit" ->
           IF expected # "None" /\ expected # "Float"
           THEN TcFail("TypecheckError") ELSE TcType("Float")
      [] expr.k = "IdentExpr" ->
           IF ~TcHas(en, expr.name) THEN TcFail("TypecheckError")
           ELSE IF expected # "None" /\ TcGet(en, expr.name) # expected
           THEN TcFail("TypecheckError")
           ELSE TcType(TcGet(en, expr.name))
      [] expr.k = "CallExpr" -> type_call(expr, expected, sy)
      [] OTHER -> TcFail("TypecheckError")

(***************************************************************************)
(* pipeline.py run and main.py main: parse, lower, typecheck, execute      *)
(***************************************************************************)
\* the exception of a stage is recorded and the run goes on
RunStage_goes_on(res, nxt) ==
    /\ run_pc' = nxt
    /\ run_err' = IF res = "ok" THEN run_err ELSE [at |-> run_pc, exc |-> res]

\* pipeline.py:25-26, main.py:20-30: a stage returns and the next one
\* starts, or its exception leaves the run
RunStage(res, nxt) ==
    IF res = "ok"
    THEN run_pc' = nxt /\ run_err' = run_err
    ELSE run_pc' = "raised" /\ run_err' = [at |-> run_pc, exc |-> res]

\* a Python call of a function of the given parameters with the given
\* positional arguments
python_call(params, args) == IF Len(args) = Len(params) THEN "ok" ELSE "TypeError"

\* typecheck.py:310
TypecheckParams == <<"prog">>

\* pipeline.py:13 typecheck_program(prog, diags), main.py:21
\* typecheck_program(prog)
TypecheckArgs == IF run_driver = "pipeline.run" THEN <<"prog", "diags">> ELSE <<"prog">>

\* pipeline.py:9, main.py:20
RunParse ==
    /\ run_pc = "parse"
    /\ IF run_src.parses
       THEN /\ run_prog' = run_src.prog
            /\ RunStage("ok", IF run_driver = "pipeline.run" THEN "lower"
                              ELSE "typecheck")
       ELSE /\ run_prog' = run_prog
            /\ RunStage("SyntaxError", "lower")
    /\ UNCHANGED <<run_driver, run_src, tc_i, tc_env, diags, lvars, bvars, evars>>

\* pipeline.py:10-11
RunLower ==
    /\ run_pc = "lower"
    /\ run_prog' = lower_program(run_prog)
    /\ RunStage("ok", "typecheck")
    /\ UNCHANGED <<run_driver, run_src, tc_i, tc_env, diags, lvars, bvars, evars>>

\* pipeline.py:13, main.py:21, typecheck.py:310-317: the call of
\* typecheck_program, and its build_symbols
RunTypecheck ==
    /\ run_pc = "typecheck"
    /\ LET c == python_call(TypecheckParams, TypecheckArgs)
           b == tc_build_symbols(run_prog, 1, TcSymbols0)
       IN  RunStage(IF c # "ok" THEN c ELSE b.st, "checking")
    /\ tc_i' = 1
    /\ tc_env' = <<>>
    /\ UNCHANGED <<run_driver, run_src, run_prog, diags, lvars, bvars, evars>>

TcItem == run_prog[tc_i]

TcAt(kinds) ==
    /\ run_pc = "checking"
    /\ tc_i \in 1..Len(run_prog)
    /\ TcItem.k \in kinds

TcSyms == tc_build_symbols(run_prog, 1, TcSymbols0).syms

\* typecheck.py:319-337
CheckVarDecl ==
    /\ TcAt({"VarDecl"})
    /\ LET r == type_expr(TcItem.expr, TcItem.typ.name, tc_env, TcSyms)
       IN  /\ RunStage(r.st, "checking")
           /\ IF r.st = "ok"
              THEN tc_env' = TcSet(tc_env, TcItem.name, r.t) /\ tc_i' = tc_i + 1
              ELSE UNCHANGED <<tc_env, tc_i>>
    /\ UNCHANGED <<run_driver, run_src, run_prog, diags, lvars, bvars, evars>>

\* typecheck.py:340-353
CheckExprStmt ==
    /\ TcAt({"ExprStmt"})
    /\ LET r == type_expr(TcItem.expr, "None", tc_env, TcSyms)
           res == IF r.st = "ok" /\ r.t # "Unit" THEN "TypecheckError" ELSE r.st
       IN  /\ RunStage(res, "checking")
           /\ tc_i' = IF res = "ok" THEN tc_i + 1 ELSE tc_i
    /\ UNCHANGED <<run_driver, run_src, run_prog, tc_env, diags, lvars, bvars, evars>>

\* typecheck.py:355-356: every other item is passed over
CheckSkip ==
    /\ run_pc = "checking"
    /\ tc_i \in 1..Len(run_prog)
    /\ TcItem.k \notin {"VarDecl", "ExprStmt"}
    /\ tc_i' = tc_i + 1
    /\ UNCHANGED <<run_driver, run_src, run_prog, run_pc, run_err, tc_env, diags,
                   lvars, bvars, evars>>

Line(text) == [s |-> text, n |-> 0, d |-> 1]

\* pipeline.py:16-18: one line for each warning of diags
WarningLines(ds) ==
    LET w == SelectSeq(ds, LAMBDA d : d.level = "warning")
    IN  [j \in 1..Len(w) |-> Line(<<"warning", w[j].code, w[j].message>>)]

\* main.py:23-28: the type env, one line for each name
ReportLines(en) ==
    <<Line("== typecheck ==")>>
        \o [j \in 1..Len(en) |-> Line(<<en[j].name, en[j].typ>>)]
        \o <<Line(""), Line("== run Code.ginger ==")>>

\* typecheck.py:358 return env, then pipeline.py:16-20 or main.py:23-28
CheckReturn ==
    /\ run_pc = "checking"
    /\ tc_i = Len(run_prog) + 1
    /\ run_pc' = "execute"
    /\ out' = out \o (IF run_driver = "pipeline.run" THEN WarningLines(diags)
                      ELSE ReportLines(tc_env))
    /\ UNCHANGED <<run_driver, run_src, run_prog, run_err, tc_i, tc_env, diags,
                   ev_prog, ev_i, env, ev_status, ev_fid, host, last, lvars, bvars>>

\* pipeline.py:22-23, main.py:30, eval.py:51, symbols_builder.py:42-52: the
\* call of eval_program, which starts with build_symbols(prog)
RunExecute ==
    /\ run_pc = "execute"
    /\ run_pc' = "symbols"
    /\ bs_items' = run_prog
    /\ bs_i' = 1
    /\ bs_status' = "building"
    /\ UNCHANGED <<guarantees, typegroups, type_guarantees, sigs, sig_failures,
                   sig_attrs, funcs, impls, types>>
    /\ UNCHANGED <<run_driver, run_src, run_prog, run_err, tc_i, tc_env, diags,
                   lvars, evars>>

\* eval.py:51-54: build_symbols has returned, the loop of eval_program
\* starts; or its exception leaves eval_program and the run
RunEval ==
    /\ run_pc = "symbols"
    /\ bs_status # "building"
    /\ IF bs_status = "returned"
       THEN /\ ev_prog' = run_prog
            /\ ev_i' = 1
            /\ env' = EmptyDict
            /\ ev_status' = "running"
            /\ run_pc' = "running"
            /\ run_err' = run_err
       ELSE /\ run_pc' = "raised"
            /\ run_err' = [at |-> "execute", exc |-> bs_status]
            /\ UNCHANGED <<ev_prog, ev_i, env, ev_status>>
    /\ UNCHANGED <<run_driver, run_src, run_prog, tc_i, tc_env, diags, out, ev_fid,
                   host, last, lvars, bvars>>

\* pipeline.py:23,26, main.py:30: eval_program returns, or its exception
\* leaves the run
RunEnd ==
    /\ run_pc = "running"
    /\ ev_status # "running"
    /\ IF ev_status = "returned"
       THEN run_pc' = "done" /\ run_err' = run_err
       ELSE run_pc' = "raised" /\ run_err' = [at |-> "execute", exc |-> ev_status]
    /\ UNCHANGED <<run_driver, run_src, run_prog, tc_i, tc_env, diags, lvars, bvars,
                   evars>>

(***************************************************************************)
(* The runs: the sources that parse to a Program of at most MaxRun items,  *)
(* and one that does not parse                                             *)
(***************************************************************************)
MaxRun == 2

\* the top-level items of the sources
\* print(x = 1): a call written with a named argument
PrintNamed == CallExpr("print", <<NamedArg("x", IntLit(1))>>, "named")

RunItems ==
    {GuaranteeDecl("Marker", <<>>),
     TypeGroupDecl("Number", <<TypeRef("Int"), TypeRef("Float")>>),
     SigDecl("f", <<>>, TypeRef("Unit"), <<>>, TypeRef("Never"), <<"handled">>),
     ShowDecl,
     RegisterDecl(TypeRef("Int"), "Marker"),
     ImplDecl(TypeRef("Int"), "Marker", <<>>),
     VarDecl(FALSE, TypeRef("Int"), "x", IntLit(1)),
     VarDecl(TRUE, TypeRef("Float"), "x", FloatLit(2)),
     VarDecl(FALSE, TypeRef("Int"), "y", BinaryExpr("+", IdentExpr("x"), IntLit(1))),
     AssignStmt("x", IntLit(2)),
     TryStmt(PrintDiv),
     CatchStmt("IOErr", PrintInt),
     CatchStmt("DivideByZero", PrintInt),
     ExprStmt(ShowInt),
     ExprStmt(PrintInt),
     TryStmt(PrintNamed)}

RunSources ==
    {NoSource} \cup
    {[parses |-> TRUE, prog |-> q] : q \in UNION {[1..n -> RunItems] : n \in 0..MaxRun}}

\* pipeline.py:25 run(src), main.py:10 main(), pipeline.py:22 execute(prog)
RunInit ==
    /\ run_driver \in {"pipeline.run", "main.main", "pipeline.execute"}
    /\ run_src \in RunSources
    /\ IF run_driver = "pipeline.execute"
       THEN run_src.parses /\ run_prog = run_src.prog /\ run_pc = "execute"
       ELSE run_prog = <<>> /\ run_pc = "parse"
    /\ run_err = NoErr
    /\ tc_i = 0
    /\ tc_env = <<>>
    /\ diags = <<>>
    /\ LowerIdle
    /\ BuildIdle
    /\ EvalIdle

RunNext ==
    \/ RunParse
    \/ RunLower
    \/ RunTypecheck
    \/ CheckVarDecl
    \/ CheckExprStmt
    \/ CheckSkip
    \/ CheckReturn
    \/ RunExecute
    \/ BuildNext
    \/ RunEval
    \/ EvalNext
    \/ RunEnd

SpecRun == RunInit /\ [][RunNext]_vars

(***************************************************************************)
(* Where a BinaryExpr node occurs                                          *)
(***************************************************************************)
RECURSIVE HasBinaryExpr(_)
HasBinaryExpr(e) ==
    \/ e.k = "BinaryExpr"
    \/ /\ e.k = "CallExpr"
       /\ \E j \in 1..Len(e.args) : HasBinaryExpr(e.args[j].expr)

ItemHasBinaryExpr(it) ==
    IF it.k = "FuncDecl"
    THEN \E j \in 1..Len(it.body.stmts) : HasBinaryExpr(it.body.stmts[j].expr)
    ELSE IF it.k \in {"ExprStmt", "TryStmt", "CatchStmt", "VarDecl", "AssignStmt"}
    THEN HasBinaryExpr(it.expr)
    ELSE FALSE

ProgramHasBinaryExpr(p) == \E j \in 1..Len(p) : ItemHasBinaryExpr(p[j])

\* a BinaryExpr directly under an argument of a call
BinaryUnderArg(e, argkind) ==
    /\ e.k = "CallExpr"
    /\ \E j \in 1..Len(e.args) :
          e.args[j].k = argkind /\ e.args[j].expr.k = "BinaryExpr"

(***************************************************************************)
(* C1: for every Program P, also with a BinaryExpr nested inside call      *)
(* arguments, named arguments, try/catch expressions, let/var/assignment   *)
(* right-hand sides and func bodies, lower_program(P) contains no          *)
(* BinaryExpr node anywhere.                                               *)
(***************************************************************************)
C1_NoBinaryExprAfterLowering ==
    lw_pc \in {"lowered", "relowered"} => ~ProgramHasBinaryExpr(lw_out)

\* lowered: a func body whose call carries a BinaryExpr as a named argument
C1_Witness ==
    /\ lw_pc = "lowered"
    /\ \E j \in 1..Len(lw_prog) :
          /\ lw_prog[j].k = "FuncDecl"
          /\ BinaryUnderArg(lw_prog[j].body.stmts[2].expr, "NamedArg")
    /\ lw_out # lw_prog

(***************************************************************************)
(* C2: lowering is idempotent: lower_program(lower_program(P)) is          *)
(* structurally equal to lower_program(P).                                 *)
(***************************************************************************)
C2_LoweringIdempotent ==
    lw_pc = "relowered" => lw_out2 = lw_out

\* lowered twice: a try expression with a BinaryExpr whose operand is a BinaryExpr
C2_Witness ==
    /\ lw_pc = "relowered"
    /\ \E j \in 1..Len(lw_prog) :
          /\ lw_prog[j].k = "TryStmt"
          /\ lw_prog[j].expr.k = "BinaryExpr"
          /\ lw_prog[j].expr.left.k = "BinaryExpr"
    /\ lw_out # lw_prog

(***************************************************************************)
(* C6: catalog closure.  Whenever build_symbols returns a Symbols value,   *)
(* for every type T and every guarantee G in type_guarantees[T], G is a    *)
(* declared guarantee, every method m of G has the key (T, G, m) in impls, *)
(* and every builtin id stored in impls is registered in the builtin       *)
(* table; if any of these fails, build_symbols raises TypecheckError       *)
(* instead of returning.                                                   *)
(***************************************************************************)
CatalogClosed ==
    /\ \A t \in DOMAIN type_guarantees :
          type_guarantees[t] \subseteq DOMAIN guarantees
    /\ \A t \in DOMAIN type_guarantees : \A g \in type_guarantees[t] :
          {<<t, g, m.name>> : m \in SeqToSet(guarantees[g].methods)}
              \subseteq DOMAIN impls
    /\ {impls[key] : key \in DOMAIN impls} \subseteq BUILTINS

\* the loop over prog.items is over and build_symbols has ended
BuildEnded ==
    bs_i = Len(bs_items) + 1 /\ bs_status \notin {"idle", "building"}

C6_CatalogClosure ==
    /\ bs_status = "returned" => CatalogClosed
    /\ (BuildEnded /\ ~CatalogClosed) => bs_status = "TypecheckError"

\* returned with Int advertising Printable, whose method print has an impl
C6_Witness ==
    /\ bs_status = "returned"
    /\ "Int" \in DOMAIN type_guarantees
    /\ "Printable" \in type_guarantees["Int"]
    /\ Len(guarantees["Printable"].methods) = 1
    /\ <<"Int", "Printable", "print">> \in DOMAIN impls

\* the loop ended on a catalog that is not closed: a stored builtin id is
\* not registered
C6_WitnessRejected ==
    /\ BuildEnded
    /\ bs_status = "TypecheckError"
    /\ \E key \in DOMAIN impls : impls[key] \notin BUILTINS

(***************************************************************************)
(* C7: sig/func compatibility.  build_symbols accepts a func declaration   *)
(* exactly when a sig of the same name exists and the multiset of the      *)
(* func's parameter type names equals the multiset of the sig's parameter  *)
(* type names.                                                             *)
(***************************************************************************)
\* how often type name n occurs among the type names q
Occurrences(q, n) == Cardinality({j \in 1..Len(q) : q[j] = n})

SameMultiset(q1, q2) ==
    \A n \in SeqToSet(q1) \cup SeqToSet(q2) : Occurrences(q1, n) = Occurrences(q2, n)

FuncParamTypes(f) == [j \in 1..Len(f.params) |-> f.params[j].typ.name]

SigParamTypes(g) == [j \in 1..Len(g.params) |-> g.params[j].name]

\* item j is a FuncDecl, the first of its name
FirstFuncAt(j) ==
    /\ bs_items[j].k = "FuncDecl"
    /\ \A h \in 1..(j - 1) :
          ~(bs_items[h].k = "FuncDecl" /\ bs_items[h].name = bs_items[j].name)

\* a sig of the func's name was declared before item j, with the same
\* multiset of parameter types
FuncFitsSig(j) ==
    \E h \in 1..(j - 1) :
        /\ bs_items[h].k = "SigDecl"
        /\ bs_items[h].name = bs_items[j].name
        /\ SameMultiset(FuncParamTypes(bs_items[j]), SigParamTypes(bs_items[h]))

C7_FuncAcceptedIffMultisetMatches ==
    \A j \in 1..Len(bs_items) :
        FirstFuncAt(j) =>
            /\ bs_i > j => FuncFitsSig(j)
            /\ (bs_i = j /\ bs_status # "building") => ~FuncFitsSig(j)

(***************************************************************************)
(* The try group of the last step, read off the program text               *)
(***************************************************************************)
\* the catches adjacent to the try at i
GroupCatches(p, i) ==
    {h \in (i + 1)..Len(p) : \A g \in (i + 1)..h : p[g].k = "CatchStmt"}

\* the catches of the group at i that name f
Naming(p, i, f) == {h \in GroupCatches(p, i) : p[h].failure_name = f}

FirstOf(m) == CHOOSE h \in m : \A g \in m : h <= g

\* the last step evaluated a try group that has a catch
TriedGroup == last.kind = "TryStmt" /\ GroupCatches(ev_prog, last.at) # {}

\* the loop went on with the item after the last catch of the group
Continued ==
    /\ ev_status \in {"running", "returned"}
    /\ ev_i = last.at + Cardinality(GroupCatches(ev_prog, last.at)) + 1

\* the exception with failure f left eval_program at the group
Propagated(f) ==
    ev_status = "RaisedFailure" /\ ev_fid = f /\ ev_i = last.at

TryRaised == last.try.st = "RaisedFailure"

HandlerRaised == last.h.st = "RaisedFailure"

C8_DivideByZeroCaught ==
    (/\ TriedGroup
     /\ ev_prog[last.at] = TryStmt(PrintDiv)
     /\ Naming(ev_prog, last.at, "DivideByZero") # {}) =>
        /\ "DivideByZero" \in FailureId
        /\ last.try = [st |-> "RaisedFailure", fid |-> "DivideByZero"]
        /\ last.ran = <<FirstOf(Naming(ev_prog, last.at, "DivideByZero"))>>

(***************************************************************************)
(* C9: evaluation order.  The arguments of a call are evaluated left to    *)
(* right, all before the callee runs, and the lines of the output sink     *)
(* appear in the order in which the print calls are evaluated across the   *)
(* top-level items.                                                        *)
(***************************************************************************)
IsPrefix(q1, q2) == Len(q1) <= Len(q2) /\ SubSeq(q2, 1, Len(q1)) = q1

IntLine(n) == [s |-> "int", n |-> n, d |-> 1]

FloatLine(n) == [s |-> "float", n |-> n, d |-> 1]

\* the lines of print(add(show(1), show(2.0))): 1 of the first argument,
\* 2.0 of the second, then 3.0 of print; a print that fails ends them
SumLines ==
    IF host["core.int.print"] # "none" THEN <<>>
    ELSE IF host["core.float.print"] # "none" THEN <<IntLine(1)>>
    ELSE <<IntLine(1), FloatLine(2), FloatLine(3)>>

RECURSIVE Mentions(_, _)
Mentions(e, n) ==
    CASE e.k = "IdentExpr" -> e.name = n
      [] e.k = "CallExpr" -> \E j \in 1..Len(e.args) : Mentions(e.args[j].expr, n)
      [] OTHER -> FALSE

C10_VarDeclBindsAfterRhs ==
    last.kind = "VarDecl" =>
        LET item == ev_prog[last.at]
        IN  /\ ev_status \notin {"running", "returned"} => env = last.env0
            /\ (Mentions(item.expr, item.name) /\ item.name \notin DOMAIN last.env0)
                  => ev_status = "EvalError"
            /\ ev_status \in {"running", "returned"} =>
                  /\ DOMAIN env = DOMAIN last.env0 \cup {item.name}
                  /\ env[item.name].mutable = item.mutable
                  /\ \A n \in DOMAIN last.env0 \ {item.name} : env[n] = last.env0[n]

\* var x = add(x, 1) with x unbound: the right-hand side does not see x,
\* raises, and x stays unbound
C10_Witness ==
    /\ last.kind = "VarDecl"
    /\ Mentions(ev_prog[last.at].expr, "x")
    /\ ev_status = "EvalError"
    /\ "x" \notin DOMAIN env

C11_WitnessLet ==
    /\ last.kind = "AssignStmt"
    /\ "x" \in DOMAIN last.env0
    /\ ~last.env0["x"].mutable
    /\ ev_status = "EvalError"

\* the item evaluated last is a VarDecl or an ExprStmt of the expression e
CallStep(e) ==
    /\ last.kind \in {"VarDecl", "ExprStmt"}
    /\ ev_prog[last.at].expr = e

\* the loop went on after the item evaluated last
WentOn == ev_status \in {"running", "returned"} /\ ev_i > last.at

\* the failure f left eval_program at the item evaluated last
Escaped(f) == ev_status = "RaisedFailure" /\ ev_fid = f /\ ev_i = last.at

C18_WitnessRaised == ev_status = "RaisedFailure" /\ out # <<>> /\ ev_i > 1

(***************************************************************************)
(* C19: runtime capability dispatch.  A call to a name that has a sig and  *)
(* no user func raises EvalError unless the sig has exactly one            *)
(* RequireGuarantees; otherwise Self is the runtime type of the first      *)
(* argument, EvalError is raised when (Self, guarantee, sig name) is not   *)
(* in impls, and otherwise the builtin impls[key] is invoked with all the  *)
(* arguments in order.  Checked on the calls whose arguments are literals  *)
(* and bound names.                                                        *)
(***************************************************************************)
IsAtom(e, en) ==
    \/ e.k \in {"IntLit", "FloatLit"}
    \/ e.k = "IdentExpr" /\ e.name \in DOMAIN en

AtomValue(e, en) ==
    CASE e.k = "IntLit" -> IntV(e.value)
      [] e.k = "FloatLit" -> FloatV(e.value, 1)
      [] e.k = "IdentExpr" -> en[e.name].value

DirectCall(e, en) ==
    /\ e.k = "CallExpr"
    /\ e.callee \in DOMAIN sigs \ DOMAIN funcs
    /\ Len(e.args) >= 1
    /\ \A j \in 1..Len(e.args) : IsAtom(e.args[j].expr, en)

Dispatched(item, e) ==
    LET sig == sigs[e.callee]
        reqs == {j \in 1..Len(sig.requires) : sig.requires[j].k = "RequireGuarantees"}
        vals == [j \in 1..Len(e.args) |-> AtomValue(e.args[j].expr, last.env0)]
        g == sig.requires[CHOOSE j \in reqs : TRUE].guarantee_name
        key == <<vals[1].t, g, e.callee>>
        r == call_builtin(impls[key], vals, last.out0)
    IN  IF Cardinality(reqs) # 1 \/ key \notin DOMAIN impls
        THEN ev_status = "EvalError" /\ out = last.out0 /\ env = last.env0
        ELSE IF host_failure(impls[key]) # "none"
        THEN Escaped(host_failure(impls[key])) /\ out = last.out0
        ELSE IF r.st = "ok"
        THEN /\ WentOn
             /\ out = r.out
             /\ item.k = "VarDecl" => env[item.name].value = r.v
        ELSE r.st # "ZeroDivisionError" => ev_status = r.st /\ out = r.out

C19_WitnessNoImpl ==
    /\ CallStep(PrintU)
    /\ "u" \in DOMAIN last.env0
    /\ last.env0["u"].value = UnitV
    /\ ev_status = "EvalError"

\* add(1, u) of a Unit u reached core.int.add, the implementation for Int
C19_WitnessFirstArg ==
    /\ CallStep(AddIntU)
    /\ "u" \in DOMAIN last.env0
    /\ last.env0["u"].value = UnitV
    /\ ev_status = "TypeError"

(***************************************************************************)
(* C20 as stated: every runtime value has a runtime type tag among Int,    *)
(* Float, String, Unit and Ordering; the Ordering that cmp returns, passed *)
(* as the first argument of print, resolves Self = Ordering and is printed *)
(* by core.ordering.print instead of raising the error of an unknown       *)
(* runtime type.                                                           *)
(***************************************************************************)
C20_OrderingPrinted ==
    (CallStep(PrintCmp) /\ last.kind = "ExprStmt") =>
        /\ WentOn
        /\ out = Append(last.out0, [s |-> "Right", n |-> 0, d |-> 1])

(***************************************************************************)
(* The static stages of a run                                              *)
(***************************************************************************)
\* parsing, lowering or type checking raised
StaticError == run_err.at \in {"parse", "lower", "typecheck", "checking"}

\* typecheck_program(prog) has just returned its env
TcReturned == run_driver # "pipeline.execute" /\ run_pc = "execute"

(***************************************************************************)
(* C12: static errors are fatal and come before execution.  When parsing,  *)
(* lowering or type checking of a source raises, the evaluator is never    *)
(* run for that source: build_symbols and eval_program are not entered,    *)
(* nothing is printed and no binding is created.                           *)
(***************************************************************************)
C12_StaticErrorsFatal ==
    StaticError =>
        /\ run_pc = "raised"
        /\ bs_status = "idle"
        /\ ev_status = "idle"
        /\ env = EmptyDict
        /\ out = <<>>

\* pipeline.run stopped at type checking on a source that declares x
C12_Witness ==
    /\ run_driver = "pipeline.run"
    /\ run_err.at = "typecheck"
    /\ \E j \in 1..Len(run_prog) : run_prog[j].k = "VarDecl"
    /\ ev_status = "idle"

\* main stopped in the checker after an item was checked
C12_WitnessChecker ==
    /\ run_driver = "main.main"
    /\ run_err = [at |-> "checking", exc |-> "TypecheckError"]
    /\ tc_i = 2
    /\ run_prog[1].k = "VarDecl"

\* the source did not parse
C12_WitnessParse == run_err = [at |-> "parse", exc |-> "SyntaxError"]

(***************************************************************************)
(* C14 as stated: the checker rejects redeclaration.  A program in which a *)
(* top-level VarDecl names a name that an earlier VarDecl bound never      *)
(* passes type checking, whatever let/var and types the two carry.         *)
(***************************************************************************)
Redeclares(p) ==
    \E i, j \in 1..Len(p) :
        i < j /\ p[i].k = "VarDecl" /\ p[j].k = "VarDecl" /\ p[i].name = p[j].name

C14_RedeclarationRejected == TcReturned => ~Redeclares(run_prog)

(***************************************************************************)
(* C15 as stated: the checker rejects every AssignStmt whose target is not *)
(* bound or is bound by let, and checks the right-hand side against the    *)
(* type of the binding; a program that assigns to a let binding never      *)
(* passes type checking.                                                   *)
(***************************************************************************)
\* the VarDecl that binds n for the item at j: the last one before it
Binder(p, j, n) ==
    LET m == {i \in 1..(j - 1) : p[i].k = "VarDecl" /\ p[i].name = n}
    IN  IF m = {} THEN 0 ELSE CHOOSE i \in m : \A g \in m : g <= i

LitType(e) ==
    CASE e.k = "IntLit" -> "Int" [] e.k = "FloatLit" -> "Float" [] OTHER -> "None"

AssignAccepted(p, j) ==
    LET b == Binder(p, j, p[j].name)
    IN  /\ b # 0
        /\ p[b].mutable
        /\ LitType(p[j].expr) # "None" => LitType(p[j].expr) = p[b].typ.name

C15_AssignmentChecked ==
    TcReturned =>
        \A j \in 1..Len(run_prog) :
            run_prog[j].k = "AssignStmt" => AssignAccepted(run_prog, j)

(***************************************************************************)
(* The static effect of an expression and of a try group, as the spec      *)
(* defines them, over core/failure_spec.py                                 *)
(***************************************************************************)
\* core/failure_spec.py:19-30
union_failures(a, b) == a \cup b

\* core/failure_spec.py:33-39
remove_failure(fs, f) == fs \ {f}

\* the failures the sig of callee c declares: core/math.py:143-152 for div,
\* and the failure of a SigDecl of the program
DeclaredFailures(p, c) ==
    (IF c = "div" THEN {"DivideByZero"} ELSE {})
        \cup {p[j].failure.name : j \in {h \in 1..Len(p) :
                 p[h].k = "SigDecl" /\ p[h].name = c /\ p[h].failure.name # "Never"}}

HandledSig(p, c) ==
    \E j \in 1..Len(p) :
        p[j].k = "SigDecl" /\ p[j].name = c /\ "handled" \in SeqToSet(p[j].attrs)

RECURSIVE Effect(_, _)
RECURSIVE ArgsEffect(_, _, _)
Effect(p, e) ==
    IF e.k = "CallExpr"
    THEN union_failures(ArgsEffect(p, e.args, 1),
                        IF HandledSig(p, e.callee) THEN {}
                        ELSE DeclaredFailures(p, e.callee))
    ELSE {}

ArgsEffect(p, args, j) ==
    IF j > Len(args) THEN {}
    ELSE union_failures(Effect(p, args[j].expr), ArgsEffect(p, args, j + 1))

RECURSIVE CatchesRemoved(_, _, _)
CatchesRemoved(p, fs, cs) ==
    IF cs = {} THEN fs
    ELSE LET c == CHOOSE h \in cs : TRUE
         IN  CatchesRemoved(p, remove_failure(fs, p[c].failure_name), cs \ {c})

Residual(p, i) ==
    CatchesRemoved(p, Effect(p, p[i].expr), GroupCatches(p, i))
        \cup UNION {remove_failure(Effect(p, p[c].expr), p[c].failure_name) :
                        c \in GroupCatches(p, i)}

\* a warning UNHANDLED_FAILURES is among the diagnostics
Warned ==
    \E j \in 1..Len(diags) :
        diags[j].level = "warning" /\ diags[j].code = "UNHANDLED_FAILURES"

(***************************************************************************)
(* C16 as stated: the residual failure set of a try group is the effect of *)
(* the try expression less every catch's failure name, united with each    *)
(* catch expression's effect less its own failure name; the warning        *)
(* UNHANDLED_FAILURES is emitted exactly when a group's residual is not    *)
(* empty, and checking goes on.                                            *)
(***************************************************************************)
C16_TryGroupResidual ==
    TcReturned =>
        ((\E i \in 1..Len(run_prog) :
              /\ run_prog[i].k = "TryStmt"
              /\ GroupCatches(run_prog, i) # {}
              /\ Residual(run_prog, i) # {})
         <=> Warned)

(***************************************************************************)
(* C17 as stated: a literal or an identifier has the empty failure set; a  *)
(* call has the union of its arguments' sets and of the failures its sig   *)
(* declares, the latter left out when the sig is handled.  Read off what   *)
(* the checker reports: a statement outside a try/catch group whose        *)
(* expression has a non-empty failure set is warned of, one whose set is   *)
(* empty is not.                                                           *)
(***************************************************************************)
Ungrouped(p, i) ==
    \/ p[i].k \in {"VarDecl", "ExprStmt", "AssignStmt"}
    \/ p[i].k = "TryStmt" /\ GroupCatches(p, i) = {}

C17_ExpressionEffect ==
    (TcReturned /\ \A i \in 1..Len(run_prog) : run_prog[i].k # "CatchStmt") =>
        ((\E i \in 1..Len(run_prog) :
              Ungrouped(run_prog, i) /\ Effect(run_prog, run_prog[i].expr) # {})
         <=> Warned)

C22_RequireChecked ==
    run_err.at = "checking" => run_prog[tc_i] # ExprStmt(PrintInt)

(***************************************************************************)
(* C23 as stated: a call written with named arguments whose callee is      *)
(* declared only as a sig is rejected by the checker before evaluation,    *)
(* for every list of named arguments: a program holding such a call never  *)
(* passes type checking.                                                   *)
(***************************************************************************)
NamedSigCall(p, j) ==
    /\ "expr" \in DOMAIN p[j]
    /\ p[j].expr.k = "CallExpr"
    /\ p[j].expr.arg_style = "named"
    /\ \A h \in 1..Len(p) : p[h].k = "FuncDecl" => p[h].name # p[j].expr.callee

C23_NamedSigCallRejected ==
    TcReturned => \A j \in 1..Len(run_prog) : ~NamedSigCall(run_prog, j)

(***************************************************************************)
(* The tree of an operator chain as the grammar defines it: the chain is   *)
(* split at the last of its operators of lowest precedence, * and / being  *)
(* of higher precedence than + and -                                       *)
(***************************************************************************)
Tight(op) == op \in {"*", "/"}

\* the operator at which the operands lo..hi of the chain o split
SplitAt(o, lo, hi) ==
    CHOOSE k \in lo..(hi - 1) :
        /\ \A h \in lo..(hi - 1) : Tight(o[k]) => Tight(o[h])
        /\ \A h \in (k + 1)..(hi - 1) : Tight(o[h]) /\ ~Tight(o[k])

RECURSIVE ChainTree(_, _, _)
ChainTree(o, lo, hi) ==
    IF lo = hi THEN IdentExpr(Operand(lo).text)
    ELSE LET k == SplitAt(o, lo, hi)
         IN  BinaryExpr(o[k], ChainTree(o, lo, k), ChainTree(o, k + 1, hi))

CalleeOf(op) ==
    CASE op = "+" -> "add" [] op = "-" -> "sub" [] op = "*" -> "mul" [] op = "/" -> "div"

RECURSIVE ChainCalls(_, _, _)
ChainCalls(o, lo, hi) ==
    IF lo = hi THEN IdentExpr(Operand(lo).text)
    ELSE LET k == SplitAt(o, lo, hi)
         IN  CallExpr(CalleeOf(o[k]),
                      <<PosArg(ChainCalls(o, lo, k)), PosArg(ChainCalls(o, k + 1, hi))>>,
                      "pos")

\* the source that holds the chain o of n operators at the position pos
ChainSource(pos, o, n) == Before(pos) \o Chain(o, n) \o <<Eof>>

\* the texts of the tokens of ps_toks where a chain of n operators at the
\* position pos has its operators
OpsRead(pos, n) == [j \in 1..n |-> ps_toks[Len(Before(pos)) + 1 + 2 * j].text]

Parsed == lw_pc \in {"parsed", "lowered", "relowered"}

Lowered == lw_pc \in {"lowered", "relowered"}

(***************************************************************************)
(* C25: precedence and associativity.  For every parenthesised operator    *)
(* chain the parser builds the tree in which * and / bind tighter than +   *)
(* and -, and operators of equal precedence group to the left; after       *)
(* lowering the operands keep their left/right order as the first and the  *)
(* second positional argument of add, sub, mul or div.                     *)
(***************************************************************************)
C25_Precedence ==
    \A pos \in Positions : \A n \in 1..MaxOps :
        LET o == OpsRead(pos, n)
        IN  (Len(ps_toks) = Len(Before(pos)) + 2 * n + 4
               /\ ps_toks = ChainSource(pos, o, n)
               /\ \A j \in 1..n : o[j] \in Ops) =>
            /\ Parsed => lw_prog = <<[lw_prog[1] EXCEPT !.expr = ChainTree(o, 1, n + 1)]>>
            /\ Lowered => lw_out = <<[lw_prog[1] EXCEPT !.expr = ChainCalls(o, 1, n + 1)]>>

\* let v: Int = (a - b - c) was parsed and lowered to sub(sub(a, b), c)
C25_Witness ==
    /\ ps_toks = ChainSource("let", <<"-", "-">>, 2)
    /\ lw_pc = "lowered"
    /\ lw_prog[1].expr =
           BinaryExpr("-", BinaryExpr("-", IdentExpr("a"), IdentExpr("b")), IdentExpr("c"))
    /\ lw_out[1].expr =
           Call2("sub", Call2("sub", IdentExpr("a"), IdentExpr("b")), IdentExpr("c"))

\* try (a + b * c) was parsed as a + (b * c)
C25_WitnessTighter ==
    /\ ps_toks = ChainSource("try", <<"+", "*">>, 2)
    /\ lw_pc = "parsed"
    /\ lw_prog[1].expr =
           BinaryExpr("+", IdentExpr("a"), BinaryExpr("*", IdentExpr("b"), IdentExpr("c")))

(***************************************************************************)
(* The parenthesisation rules of the grammar, read off the tokens          *)
(***************************************************************************)
IsSym(toks, j, t) == toks[j].kind = "SYM" /\ toks[j].text = t

\* the ( that encloses the token at j: the nearest one before j with as
\* many ( as ) between it and j; 0 when there is none
OpenOf(toks, j) ==
    LET opens == {k \in 1..(j - 1) :
                    /\ IsSym(toks, k, "(")
                    /\ Cardinality({h \in (k + 1)..(j - 1) : IsSym(toks, h, "(")})
                         = Cardinality({h \in (k + 1)..(j - 1) : IsSym(toks, h, ")")})}
    IN  IF opens = {} THEN 0 ELSE CHOOSE k \in opens : \A h \in opens : h <= k

\* the ( at k opens a group, not the argument list of a call
GroupOpen(toks, k) ==
    IsSym(toks, k, "(") /\ (k = 1 \/ toks[k - 1].kind # "IDENT")

\* every operator is directly inside the parentheses of a group
OperatorsInGroups(toks) ==
    \A j \in 1..Len(toks) :
        is_op(toks, j) => OpenOf(toks, j) # 0 /\ GroupOpen(toks, OpenOf(toks, j))

\* every group has an operator directly inside its parentheses
GroupsHaveOperator(toks) ==
    \A k \in 1..Len(toks) :
        GroupOpen(toks, k) => \E j \in 1..Len(toks) : is_op(toks, j) /\ OpenOf(toks, j) = k

\* every - follows an operand
NoMinusAtOperand(toks) ==
    \A j \in 1..Len(toks) :
        IsSym(toks, j, "-") =>
            /\ j > 1
            /\ toks[j - 1].kind \in {"IDENT", "INT", "FLOAT"} \/ IsSym(toks, j - 1, ")")

\* the source holds a parenthesised chain under try or catch or as a
\* right-hand side (a statement at top level begins with an identifier)
IsChainSource(toks) ==
    \E pos \in Positions \ {"stmt"} : \E n \in 1..MaxOps :
        /\ Len(toks) = Len(Before(pos)) + 2 * n + 4
        /\ \A j \in 1..n : OpsRead(pos, n)[j] \in Ops
        /\ toks = ChainSource(pos, OpsRead(pos, n), n)

(***************************************************************************)
(* C24 as stated: parse raises SyntaxError for an infix operator that      *)
(* follows an operand outside parentheses at any expression position, for  *)
(* a parenthesised group with no operator directly inside it, and for a -  *)
(* at operand position; every parenthesised chain of operands joined by    *)
(* + - * / is accepted.                                                    *)
(***************************************************************************)
C24_Parenthesisation ==
    /\ Parsed => /\ OperatorsInGroups(ps_toks)
                 /\ GroupsHaveOperator(ps_toks)
                 /\ NoMinusAtOperand(ps_toks)
    /\ IsChainSource(ps_toks) => lw_pc # "raised"

(***************************************************************************)
(* C26 as stated: in a sig body failure Never is accepted only as the sole *)
(* failure entry.  A body that holds failure Never together with any other *)
(* failure line is rejected with SyntaxError whichever of the two comes    *)
(* first, a repeated failure name is rejected, and failure Never alone is  *)
(* parsed to a sig with the empty failure set.                             *)
(***************************************************************************)
\* the positions of the failure lines of the source
FailureLines == {j \in 1..Len(ps_toks) : ps_toks[j] = Kw("failure")}

NeverCombined ==
    /\ \E j \in FailureLines : ps_toks[j + 1].text = "Never"
    /\ Cardinality(FailureLines) > 1

FailureRepeated ==
    \E j, h \in FailureLines : j < h /\ ps_toks[j + 1].text = ps_toks[h + 1].text

C26_NeverAlone ==
    (ps_toks \in SigSources /\ lw_pc # "source") =>
        /\ (NeverCombined \/ FailureRepeated) => ps_err = "SyntaxError"
        /\ ps_toks = SigSource(<<"Never">>) =>
               /\ lw_pc = "parsed"
               /\ lw_prog[1].k = "SigDecl"
               /\ lw_prog[1].failure.name = "Never"

(***************************************************************************)
(* C27 as stated: the catalog loader accepts a sig entry only if it has a  *)
(* builtin key whose value is a string or explicit null; a sig entry with  *)
(* no builtin key at all is rejected with a validation error, as is one    *)
(* whose builtin value is of another type.                                 *)
(***************************************************************************)
\* the first sig entry of the catalog, when the entries before it load
FirstSig ==
    /\ isinstance(cl_data, "obj")
    /\ LoadAll(get_list(cl_data, "guarantees"), load_guarantee).st = "ok"
    /\ LoadAll(get_list(cl_data, "impls"), load_impl).st = "ok"
    /\ get_list(cl_data, "sigs") # <<>>

\* the entry is well formed apart from its key builtin
WellFormedSig(s) ==
    /\ LoadAll(get_list(s, "params"), type_ref).st = "ok"
    /\ type_ref(get(s, "ret")).st = "ok"
    /\ LoadAll(get_list(s, "requires"), require).st = "ok"

C27_BuiltinKey ==
    (cl_pc # "start" /\ FirstSig) =>
        LET s == get_list(cl_data, "sigs")[1]
        IN  /\ "builtin" \notin DOMAIN s.obj => cl_err = "ValueError"
            /\ ("builtin" \in DOMAIN s.obj /\ s.obj["builtin"].j \notin {"str", "null"}) =>
                   cl_err = "ValueError"
            /\ (WellFormedSig(s) /\ "builtin" \in DOMAIN s.obj
                  /\ s.obj["builtin"].j \in {"str", "null"}
                  /\ Len(get_list(cl_data, "sigs")) = 1) =>
                   cl_pc = "returned"

(***************************************************************************)
(* C28 as stated: once a name is bound by a top-level let, its value in    *)
(* the evaluator's environment is the same in every later state: no        *)
(* top-level item of a program that passed type checking changes the value *)
(* or the mutability of that binding.  Stated over each step of            *)
(* eval_program run by main after typecheck_program returned.              *)
(***************************************************************************)
C28_LetBindingStable ==
    run_driver = "main.main" =>
        \A n \in DOMAIN last.env0 :
            ~last.env0[n].mutable => n \in DOMAIN env /\ env[n] = last.env0[n]

(***************************************************************************)
(* C29: a TryStmt that is not immediately followed by a CatchStmt makes    *)
(* eval_program raise EvalError before the try expression is evaluated, so *)
(* nothing is printed; a CatchStmt outside a group raises EvalError        *)
(* without its handler being evaluated.                                    *)
(***************************************************************************)
LoneTry(p, i) == p[i].k = "TryStmt" /\ (i = Len(p) \/ p[i + 1].k # "CatchStmt")

C29_UngroupedRaises ==
    /\ (last.kind = "TryStmt" /\ LoneTry(ev_prog, last.at)) =>
           /\ ev_status = "EvalError"
           /\ ev_i = last.at
           /\ last.try = NoOutcome
           /\ out = last.out0
           /\ env = last.env0
    /\ last.kind = "CatchStmt" =>
           /\ ev_status = "EvalError"
           /\ ev_i = last.at
           /\ out = last.out0
           /\ env = last.env0

\* try print(1) without a catch, after an item that printed, on a host
\* where print(1) succeeds: the line is not printed again
C29_Witness ==
    /\ last.kind = "TryStmt"
    /\ LoneTry(ev_prog, last.at)
    /\ ev_prog[last.at].expr = PrintInt
    /\ host["core.int.print"] = "none"
    /\ ev_status = "EvalError"
    /\ out = last.out0
    /\ out # <<>>

\* a catch after a VarDecl: its handler print(1) was not evaluated
C29_WitnessCatch ==
    /\ last.kind = "CatchStmt"
    /\ last.at > 1
    /\ ev_prog[last.at - 1].k = "VarDecl"
    /\ host["core.int.print"] = "none"
    /\ ev_status = "EvalError"
    /\ out = last.out0

====
